---------------------------- MODULE Spec2Model ----------------------------
(***************************************************************************)
(* A model of the science-card-improvement toolkit.                        *)
(*                                                                         *)
(* Part 1 (specification Spec): the human review system of                 *)
(* src/core/human_review.py.  One HumanReviewSystem instance, driven by a  *)
(* single-threaded caller and a human at the terminal.  An action runs     *)
(* from one blocking input (a call, an answer at a prompt) to the next.    *)
(*                                                                         *)
(* Part 2 (specification SpecDiscovery): RepositoryDiscovery of            *)
(* src/science_card_improvement/discovery/repository.py with the           *)
(* CacheManager of src/utils/cache.py, against a fixed Hub catalogue.      *)
(***************************************************************************)
EXTENDS Integers, Sequences, FiniteSets, TLC

(***************************************************************************)
(* Bounds of the model.                                                    *)
(***************************************************************************)
\* number of ChangeProposal objects created in a session
MaxProposals == 2
\* number of calls made on the HumanReviewSystem instance in a session
MaxCalls == 3

\* Repository ids handed to create_proposal.
Repos == {"org/data", "lab/set"}
\* Card texts: what the generator proposes and what the editor hands back.
Contents == {"c1", "c2"}
\* Answers at "Add review notes (optional)" (default "").
NoteInputs == {"", "ok"}
\* Answers at "Reason for rejection".  Prompt.ask is called without a
\* default and without choices, so an empty line is returned as "".
ReasonInputs == {"", "bad"}

NoFile == [exists |-> FALSE]

VARIABLES
    \* ---- HumanReviewSystem ----
    auto_save,            \* self.auto_save
    proposals,            \* the heap of ChangeProposal objects, by identity 1..n
    pending_proposals,    \* self.pending_proposals: list of object identities
    reviewed_proposals,   \* self.reviewed_proposals
    proposal_files,       \* proposals/proposal_<repo>_<session>.json + .md
    pr_draft_files,       \* proposals/pr_draft_<repo>_<session>.json
    export_files,         \* exports/proposal_export_<repo>_<timestamp>.md: the repos exported
    pc,                   \* where the current call blocks
    cur,                  \* the proposal _interactive_review is showing
    caller,               \* who called review_proposal: "direct" | "all"
    pass,                 \* locals of review_all_pending, and the answers given in the pass
    ncalls,               \* calls made on the instance so far
    event,                \* the last step: the call made or the answer given, and on which proposal
    ret,                  \* what that step returned (or raised) to the caller of the instance
    review_ret            \* what review_proposal returned in that step

reviewVars == <<auto_save, proposals, pending_proposals, reviewed_proposals,
                proposal_files, pr_draft_files, export_files, pc, cur,
                caller, pass, ncalls, event, ret, review_ret>>

VARIABLES
    \* ---- RepositoryDiscovery and its CacheManager ----
    max_memory_size,      \* CacheManager.max_memory_size
    memory_cache,         \* CacheManager.memory_cache: key -> entry
    access_times,         \* CacheManager.access_times: key -> time.time() of the last access
    cache_files,          \* <cache_dir>/<md5(key)>.cache: key -> pickled entry
    cache_stats,          \* CacheManager.stats
    stats,                \* RepositoryDiscovery.stats
    utcnow,               \* datetime.utcnow(), in seconds
    ndisc,                \* discover_repositories calls made so far
    nticks,               \* periods of waiting so far
    disc_call,            \* the arguments of the last discover_repositories call
    disc_ret,             \* what it returned or raised
    disc_trace            \* the lists it went through: found, then filtered

discVars == <<max_memory_size, memory_cache, access_times, cache_files, cache_stats,
              stats, utcnow, ndisc, nticks, disc_call, disc_ret, disc_trace>>

VARIABLES
    \* ---- one _enrich_metadata_parallel call ----
    enrich_call,          \* its argument, and what the worker threads met
    enrich_ret            \* the list it returned

enrichVars == <<enrich_call, enrich_ret>>

VARIABLES
    \* ---- direct calls of the CacheManager ----
    cache_call,           \* the last call: op, key, ttl, pattern
    cache_ret,            \* what it returned
    ncache,               \* number of calls made
    cache_log             \* per key: the last set still standing, the last use

cacheCallVars == <<cache_call, cache_ret, ncache, cache_log>>

VARIABLES
    \* ---- PortalStatusManager and HuggingSciencePortal ----
    portals,              \* per object: client connected, state of _session
    portal_call,          \* the last call and what the portal did to it
    portal_ret,           \* what the call returned
    nportal               \* number of calls made

portalVars == <<portals, portal_call, portal_ret, nportal>>

VARIABLES
    \* ---- one CollaborativeWorkflow.find_and_claim_dataset ----
    claim_pc,             \* "idle", "check", "claim", "done"
    claim_args,           \* preferred_domains and what the search returned
    claim_manager,        \* the PortalStatusManager of the call
    claim_datasets,       \* datasets, after the filter
    claim_i,              \* position of the loop in datasets
    claim_log,            \* the check_availability and claim_dataset calls made
    claim_ret             \* what the call returned

claimVars == <<claim_pc, claim_args, claim_manager, claim_datasets, claim_i,
               claim_log, claim_ret>>

VARIABLES
    \* ---- one EnhancedDiscoveryWithPortal.discover_with_insights ----
    insights_call,        \* limit and what the portal and the discovery returned
    insights_ret          \* the list it returned

insightsVars == <<insights_call, insights_ret>>

VARIABLES
    \* ---- the settings singleton and the threads that ask for it ----
    settings,             \* the module global _settings: 0 is None, else an instance
    settings_objects,     \* the Settings instances built: their directory attributes
    disk_dirs,            \* the managed directories that exist on disk
    settings_pc,          \* per thread: where it is in get_settings
    settings_start,       \* per thread: resets made when its call began
    settings_returns,     \* the calls that returned: thread, resets at start and at
                          \* return, instance returned
    resets,               \* number of reset_settings calls made
    nsettings             \* number of get_settings and reset_settings calls begun

settingsVars == <<settings, settings_objects, disk_dirs, settings_pc, settings_start,
                  settings_returns, resets, nsettings>>

VARIABLES
    \* ---- BaselineAnalyzer ----
    gold_standards,       \* self.gold_standards: repo id -> analysis
    poor_examples,        \* self.poor_examples: repo id -> analysis
    baseline_call,        \* the last call: op, what could not be fetched, the target
    baseline_ret          \* what compare_with_baselines returned, or that it raised

baselineVars == <<gold_standards, poor_examples, baseline_call, baseline_ret>>

VARIABLES
    \* ---- one call on a RepositoryMetadata value ----
    meta_call,            \* the operation and the value it was made on
    meta_ret              \* the value afterwards, and what the call returned

metaVars == <<meta_call, meta_ret>>

VARIABLES
    \* ---- one _discover_datasets call and the threads of its pool ----
    pool_pc,              \* where the calling task is: "idle", "waiting", "joining", "returned"
    pool_call,            \* keywords and limit of the call, api_calls before it
    futures,              \* per keyword: the worker thread's position, the value
                          \* of the counter it read, and its results
    completed,            \* the keywords' positions in the order their searches completed
    pool_pos,             \* position of the loop over the futures
    pool_acc,             \* datasets collected so far; per item the position of the
                          \* keyword whose search contributed it; the futures taken
    worker_stats,         \* self.stats["api_calls"] and ["errors"]
    pool_ret              \* the list returned

poolVars == <<pool_pc, pool_call, futures, completed, pool_pos, pool_acc, worker_stats,
              pool_ret>>

VARIABLES
    \* ---- one _extract_sections call ----
    sections_call,        \* the lines of the content it was given
    sections_ret          \* the list of CardSection it returned

sectionVars == <<sections_call, sections_ret>>

VARIABLES
    \* ---- one AsyncLRUCache and the tasks calling the wrapped function ----
    lru,                  \* maxsize, ttl, cache, access_order ("none" before __init__)
    lru_tasks,            \* per task: where it is in wrapper, its key, how it ended
    lru_now,              \* time.time()
    lru_used,             \* per key, the number of the step that last used it
    lru_steps             \* steps taken so far

lruVars == <<lru, lru_tasks, lru_now, lru_used, lru_steps>>

vars == <<reviewVars, discVars, enrichVars, cacheCallVars, portalVars, claimVars, insightsVars, settingsVars, baselineVars, metaVars, poolVars, sectionVars, lruVars>>

\* The variables of the other components, which the review system never touches.
OutsideReviewUnchanged == UNCHANGED <<discVars, enrichVars, cacheCallVars, portalVars, claimVars, insightsVars, settingsVars, baselineVars, metaVars, poolVars, sectionVars, lruVars>>

\* The variables of the other components, which discovery never touches.
OutsideDiscoveryUnchanged == UNCHANGED <<reviewVars, enrichVars, cacheCallVars, portalVars, claimVars, insightsVars, settingsVars, baselineVars, metaVars, poolVars, sectionVars, lruVars>>

\* The variables of the other components, which an enrichment never touches.
OutsideEnrichmentUnchanged == UNCHANGED <<reviewVars, discVars, cacheCallVars, portalVars, claimVars, insightsVars, settingsVars, baselineVars, metaVars, poolVars, sectionVars, lruVars>>

\* The variables of the other components, which a cache call never touches.
OutsideCacheUnchanged ==
    UNCHANGED <<reviewVars, enrichVars, portalVars, max_memory_size, stats, ndisc,
                disc_call, disc_ret, disc_trace, claimVars, insightsVars, settingsVars, baselineVars, metaVars, poolVars, sectionVars, lruVars>>

\* The variables of the other components, which a portal call never touches.
OutsidePortalUnchanged == UNCHANGED <<reviewVars, discVars, enrichVars, cacheCallVars, claimVars, insightsVars, settingsVars, baselineVars, metaVars, poolVars, sectionVars, lruVars>>

\* The variables of the other components, which find_and_claim_dataset never touches.
OutsideClaimUnchanged ==
    UNCHANGED <<reviewVars, discVars, enrichVars, cacheCallVars, portalVars, insightsVars, settingsVars, baselineVars, metaVars, poolVars, sectionVars, lruVars>>

\* The variables of the other components, which discover_with_insights never touches.
OutsideInsightsUnchanged ==
    UNCHANGED <<reviewVars, discVars, enrichVars, cacheCallVars, portalVars, claimVars, settingsVars, baselineVars, metaVars, poolVars, sectionVars, lruVars>>

\* The variables of the other components, which the settings never touch.
OutsideSettingsUnchanged ==
    UNCHANGED <<reviewVars, discVars, enrichVars, cacheCallVars, portalVars, claimVars,
                insightsVars, baselineVars, metaVars, poolVars, sectionVars, lruVars>>

\* The variables of the other components, which the baseline analyzer never touches.
OutsideBaselineUnchanged ==
    UNCHANGED <<reviewVars, discVars, enrichVars, cacheCallVars, portalVars, claimVars,
                insightsVars, settingsVars, metaVars, poolVars, sectionVars, lruVars>>

\* The variables of the other components, which a RepositoryMetadata call never touches.
OutsideMetadataUnchanged ==
    UNCHANGED <<reviewVars, discVars, enrichVars, cacheCallVars, portalVars, claimVars,
                insightsVars, settingsVars, baselineVars, poolVars, sectionVars, lruVars>>

\* The variables of the other components, which the search pool never touches.
OutsidePoolUnchanged ==
    UNCHANGED <<reviewVars, discVars, enrichVars, cacheCallVars, portalVars, claimVars,
                insightsVars, settingsVars, baselineVars, metaVars, sectionVars, lruVars>>

\* The variables of the other components, which card segmentation never touches.
OutsideSectionsUnchanged ==
    UNCHANGED <<reviewVars, discVars, enrichVars, cacheCallVars, portalVars, claimVars,
                insightsVars, settingsVars, baselineVars, metaVars, poolVars, lruVars>>

\* The variables of the other components, which an AsyncLRUCache never touches.
OutsideLruUnchanged ==
    UNCHANGED <<reviewVars, discVars, enrichVars, cacheCallVars, portalVars, claimVars,
                insightsVars, settingsVars, baselineVars, metaVars, poolVars, sectionVars>>

(***************************************************************************)
(* Helpers.                                                                *)
(***************************************************************************)
\* repo_id.replace('/', '_') of the file-name f-strings
FlatName(repo_id) ==
    CASE repo_id = "org/data" -> "org_data"
      [] repo_id = "lab/set" -> "lab_set"
      [] OTHER -> repo_id

FileNames == {FlatName(r) : r \in Repos}

ProposalIds == 1..Len(proposals)

NoPass == [items |-> <<>>, i |-> 0, approved |-> 0, rejected |-> 0, choices |-> <<>>]

NoRet == [value |-> "none", counts |-> <<0, 0>>]

Returned(v) == [value |-> v, counts |-> <<0, 0>>]

BoolStr(b) == IF b THEN "True" ELSE "False"

\* list.remove(x): deletes the first element that is x or compares equal to x
\* (ChangeProposal is a dataclass, so == compares the fields).  props is the
\* heap at the time of the call.
ListRemove(list, p, props) ==
    LET hits == {j \in 1..Len(list) : list[j] = p \/ props[list[j]] = props[p]}
    IN  IF hits = {} THEN list
        ELSE LET j == CHOOSE k \in hits : \A m \in hits : k <= m
             IN  SubSeq(list, 1, j - 1) \o SubSeq(list, j + 1, Len(list))

\* _save_proposal: metadata json and content .md, named after repo and session
SavedProposal(prop) ==
    [exists |-> TRUE,
     reviewed |-> prop.reviewed,
     approved |-> prop.approved,
     reviewer_notes |-> prop.reviewer_notes,
     content |-> prop.proposed_content]

\* the pr_draft dict of create_pr_draft: the change payload and the two flags
DraftOf(prop) ==
    [exists |-> TRUE,
     content |-> prop.proposed_content,
     auto_submit |-> FALSE,
     requires_confirmation |-> TRUE]

\* datetime.utcnow() at creation: the clock does not run backwards, and two
\* readings can be equal.  Time is counted from the first creation.
CreationTimes ==
    IF proposals = <<>> THEN {0}
    ELSE {proposals[Len(proposals)].created_at, proposals[Len(proposals)].created_at + 1}

(***************************************************************************)
(* Initial state: HumanReviewSystem.__init__                               *)
(***************************************************************************)
InitReview ==
    /\ auto_save \in BOOLEAN
    /\ proposals = <<>>
    /\ pending_proposals = <<>>
    /\ reviewed_proposals = <<>>
    /\ proposal_files = [f \in FileNames |-> NoFile]
    /\ pr_draft_files = [f \in FileNames |-> NoFile]
    /\ export_files = {}
    /\ pc = "idle"
    /\ cur = 0
    /\ caller = "none"
    /\ pass = NoPass
    /\ ncalls = 0
    /\ event = [op |-> "init", p |-> 0]
    /\ ret = NoRet
    /\ review_ret = "none"

(***************************************************************************)
(* create_proposal                                                         *)
(***************************************************************************)
create_proposal ==
    /\ pc = "idle"
    /\ ncalls < MaxCalls
    /\ Len(proposals) < MaxProposals
    /\ \E repo \in Repos, content \in Contents, now \in CreationTimes :
         LET prop == [repo_id |-> repo,
                      proposed_content |-> content,
                      created_at |-> now,
                      reviewed |-> FALSE,
                      approved |-> FALSE,
                      reviewer_notes |-> ""]
             id == Len(proposals) + 1
         IN  /\ proposals' = Append(proposals, prop)
             /\ pending_proposals' = Append(pending_proposals, id)
             /\ proposal_files' =
                    IF auto_save
                    THEN [proposal_files EXCEPT ![FlatName(repo)] = SavedProposal(prop)]
                    ELSE proposal_files
             /\ event' = [op |-> "create_proposal", p |-> id]
    /\ ret' = Returned("proposal")
    /\ review_ret' = "none"
    /\ ncalls' = ncalls + 1
    /\ pass' = NoPass
    /\ UNCHANGED <<auto_save, reviewed_proposals, pr_draft_files, export_files,
                   pc, cur, caller>>
    /\ OutsideReviewUnchanged

(***************************************************************************)
(* review_proposal: dispatch on `interactive`                              *)
(***************************************************************************)
\* A programmatic review that approves on its own (the automatic-approval
\* mode the design rules out).
programmatic_review_auto_approves ==
    /\ pc = "idle"
    /\ ncalls < MaxCalls
    /\ \E p \in ProposalIds :
         /\ event' = [op |-> "review_proposal(interactive=False)", p |-> p]
         /\ proposals' = [proposals EXCEPT ![p].reviewed = TRUE, ![p].approved = TRUE]
    /\ ret' = Returned("True")
    /\ review_ret' = "True"
    /\ ncalls' = ncalls + 1
    /\ pass' = NoPass
    /\ UNCHANGED <<auto_save, pending_proposals, reviewed_proposals,
                   proposal_files, pr_draft_files, export_files, pc, cur, caller>>
    /\ OutsideReviewUnchanged

\* review_proposal(proposal, interactive=False): _programmatic_review logs a
\* warning and returns False
programmatic_review ==
    /\ pc = "idle"
    /\ ncalls < MaxCalls
    /\ \E p \in ProposalIds : event' = [op |-> "review_proposal(interactive=False)", p |-> p]
    /\ ret' = Returned("False")
    /\ review_ret' = "False"
    /\ ncalls' = ncalls + 1
    /\ pass' = NoPass
    /\ UNCHANGED <<auto_save, proposals, pending_proposals, reviewed_proposals,
                   proposal_files, pr_draft_files, export_files, pc, cur, caller>>
    /\ OutsideReviewUnchanged

\* review_proposal(proposal, interactive=True): _interactive_review shows the
\* proposal and blocks at "Your choice"
review_proposal ==
    /\ pc = "idle"
    /\ ncalls < MaxCalls
    /\ \E p \in ProposalIds :
         /\ event' = [op |-> "review_proposal", p |-> p]
         /\ cur' = p
    /\ pc' = "choice"
    /\ caller' = "direct"
    /\ ret' = NoRet
    /\ review_ret' = "none"
    /\ ncalls' = ncalls + 1
    /\ pass' = NoPass
    /\ UNCHANGED <<auto_save, proposals, pending_proposals, reviewed_proposals,
                   proposal_files, pr_draft_files, export_files>>
    /\ OutsideReviewUnchanged

(***************************************************************************)
(* review_all_pending                                                      *)
(***************************************************************************)
\* `return approved, rejected`
PassReturns(np) ==
    /\ pc' = "idle"
    /\ cur' = 0
    /\ caller' = "none"
    /\ pass' = np
    /\ ret' = [value |-> "counts", counts |-> <<np.approved, np.rejected>>]

\* the call itself: the loop runs over a copy of the pending list and blocks
\* at the first proposal's "Your choice"; with nothing pending it returns (0, 0)
review_all_pending ==
    /\ pc = "idle"
    /\ ncalls < MaxCalls
    /\ event' = [op |-> "review_all_pending", p |-> 0]
    /\ LET np == [NoPass EXCEPT !.items = pending_proposals]
       IN  IF Len(pending_proposals) = 0
           THEN PassReturns(np)
           ELSE /\ pass' = [np EXCEPT !.i = 1]
                /\ cur' = pending_proposals[1]
                /\ caller' = "all"
                /\ pc' = "choice"
                /\ ret' = NoRet
    /\ review_ret' = "none"
    /\ ncalls' = ncalls + 1
    /\ UNCHANGED <<auto_save, proposals, pending_proposals, reviewed_proposals,
                   proposal_files, pr_draft_files, export_files>>
    /\ OutsideReviewUnchanged

\* What happens when _interactive_review returns `result` for `cur`, with the
\* heap now `props`: review_proposal hands the value to its caller; inside
\* review_all_pending the loop body counts it, removes an approved proposal
\* from the pending list and either asks "Continue to next proposal?" or returns.
ReviewReturns(result, props, choice) ==
    /\ review_ret' = BoolStr(result)
    /\ IF caller = "direct"
       THEN /\ pending_proposals' = pending_proposals
            /\ pass' = pass
            /\ ret' = Returned(BoolStr(result))
            /\ pc' = "idle"
            /\ cur' = 0
            /\ caller' = "none"
       ELSE LET np == [pass EXCEPT !.approved = IF result THEN @ + 1 ELSE @,
                                   !.rejected = IF result THEN @ ELSE @ + 1,
                                   !.choices = Append(@, choice)]
            IN  /\ pending_proposals' =
                       IF result THEN ListRemove(pending_proposals, cur, props)
                                 ELSE pending_proposals
                /\ IF pass.i < Len(pass.items)
                   THEN /\ pc' = "confirm"
                        /\ pass' = np
                        /\ ret' = NoRet
                        /\ UNCHANGED <<cur, caller>>
                   ELSE PassReturns(np)

\* Confirm.ask("Continue to next proposal?")
confirm_continue ==
    /\ pc = "confirm"
    /\ \E answer \in BOOLEAN :
         /\ event' = [op |-> IF answer THEN "continue" ELSE "stop", p |-> cur]
         /\ IF answer
            THEN /\ pass' = [pass EXCEPT !.i = @ + 1]
                 /\ cur' = pass.items[pass.i + 1]
                 /\ pc' = "choice"
                 /\ ret' = NoRet
                 /\ UNCHANGED caller
            ELSE PassReturns(pass)
    /\ review_ret' = "none"
    /\ UNCHANGED <<auto_save, proposals, pending_proposals, reviewed_proposals,
                   proposal_files, pr_draft_files, export_files, ncalls>>
    /\ OutsideReviewUnchanged

(***************************************************************************)
(* _interactive_review: the choices at "Your choice"                       *)
(***************************************************************************)
\* "a": the flags are set, then the notes prompt blocks
choose_approve ==
    /\ pc = "choice"
    /\ event' = [op |-> "a", p |-> cur]
    /\ proposals' = [proposals EXCEPT ![cur].reviewed = TRUE, ![cur].approved = TRUE]
    /\ pc' = "notes"
    /\ ret' = NoRet
    /\ review_ret' = "none"
    /\ UNCHANGED <<auto_save, pending_proposals, reviewed_proposals, proposal_files,
                   pr_draft_files, export_files, cur, caller, pass, ncalls>>
    /\ OutsideReviewUnchanged

\* the answer at "Add review notes (optional)"; returns True
enter_notes ==
    /\ pc = "notes"
    /\ event' = [op |-> "notes", p |-> cur]
    /\ \E notes \in NoteInputs :
         LET props == [proposals EXCEPT ![cur].reviewer_notes = notes]
         IN  /\ proposals' = props
             /\ reviewed_proposals' = Append(reviewed_proposals, cur)
             /\ ReviewReturns(TRUE, props, "a")
    /\ UNCHANGED <<auto_save, proposal_files, pr_draft_files, export_files, ncalls>>
    /\ OutsideReviewUnchanged

\* "e": the editor hands back some text; changed text replaces the proposed
\* content and the review is shown again (the recursive call), unchanged text
\* goes round the loop.  Either way the next input is "Your choice".
choose_edit ==
    /\ pc = "choice"
    /\ event' = [op |-> "e", p |-> cur]
    /\ \E edited_content \in Contents :
         proposals' = IF edited_content # proposals[cur].proposed_content
                      THEN [proposals EXCEPT ![cur].proposed_content = edited_content]
                      ELSE proposals
    /\ ret' = NoRet
    /\ review_ret' = "none"
    /\ UNCHANGED <<auto_save, pending_proposals, reviewed_proposals, proposal_files,
                   pr_draft_files, export_files, pc, cur, caller, pass, ncalls>>
    /\ OutsideReviewUnchanged

\* "r": the flags are set, then the reason prompt blocks
choose_reject ==
    /\ pc = "choice"
    /\ event' = [op |-> "r", p |-> cur]
    /\ proposals' = [proposals EXCEPT ![cur].reviewed = TRUE, ![cur].approved = FALSE]
    /\ pc' = "reason"
    /\ ret' = NoRet
    /\ review_ret' = "none"
    /\ UNCHANGED <<auto_save, pending_proposals, reviewed_proposals, proposal_files,
                   pr_draft_files, export_files, cur, caller, pass, ncalls>>
    /\ OutsideReviewUnchanged

\* the answer at "Reason for rejection"; returns False
enter_reason ==
    /\ pc = "reason"
    /\ event' = [op |-> "reason", p |-> cur]
    /\ \E reason \in ReasonInputs :
         LET props == [proposals EXCEPT ![cur].reviewer_notes = "Rejected: " \o reason]
         IN  /\ proposals' = props
             /\ reviewed_proposals' = Append(reviewed_proposals, cur)
             /\ ReviewReturns(FALSE, props, "r")
    /\ UNCHANGED <<auto_save, proposal_files, pr_draft_files, export_files, ncalls>>
    /\ OutsideReviewUnchanged

\* A skip that marks the proposal reviewed, as a rejection does.
choose_skip_marks_reviewed ==
    /\ pc = "choice"
    /\ event' = [op |-> "s", p |-> cur]
    /\ LET props == [proposals EXCEPT ![cur].reviewed = TRUE]
       IN  /\ proposals' = props
           /\ reviewed_proposals' = reviewed_proposals
           /\ ReviewReturns(FALSE, props, "s")
    /\ UNCHANGED <<auto_save, proposal_files, pr_draft_files, export_files, ncalls>>
    /\ OutsideReviewUnchanged

\* "s": returns False
choose_skip ==
    /\ pc = "choice"
    /\ event' = [op |-> "s", p |-> cur]
    /\ proposals' = proposals
    /\ reviewed_proposals' = reviewed_proposals
    /\ ReviewReturns(FALSE, proposals, "s")
    /\ UNCHANGED <<auto_save, proposal_files, pr_draft_files, export_files, ncalls>>
    /\ OutsideReviewUnchanged

\* "v": shows the full content and goes round the loop
choose_view ==
    /\ pc = "choice"
    /\ event' = [op |-> "v", p |-> cur]
    /\ ret' = NoRet
    /\ review_ret' = "none"
    /\ UNCHANGED <<auto_save, proposals, pending_proposals, reviewed_proposals,
                   proposal_files, pr_draft_files, export_files, pc, cur,
                   caller, pass, ncalls>>
    /\ OutsideReviewUnchanged

\* "d": _export_proposal writes the hand-off document and goes round the loop
choose_export ==
    /\ pc = "choice"
    /\ event' = [op |-> "d", p |-> cur]
    /\ export_files' = export_files \cup {FlatName(proposals[cur].repo_id)}
    /\ ret' = NoRet
    /\ review_ret' = "none"
    /\ UNCHANGED <<auto_save, proposals, pending_proposals, reviewed_proposals,
                   proposal_files, pr_draft_files, pc, cur, caller, pass, ncalls>>
    /\ OutsideReviewUnchanged

(***************************************************************************)
(* create_pr_draft                                                         *)
(***************************************************************************)
\* create_pr_draft without its `if not proposal.approved` check.
create_pr_draft_unchecked ==
    /\ pc = "idle"
    /\ ncalls < MaxCalls
    /\ \E p \in ProposalIds :
         /\ event' = [op |-> "create_pr_draft", p |-> p]
         /\ ret' = Returned("pr_draft")
         /\ pr_draft_files' =
                [pr_draft_files EXCEPT ![FlatName(proposals[p].repo_id)] =
                    DraftOf(proposals[p])]
    /\ review_ret' = "none"
    /\ ncalls' = ncalls + 1
    /\ pass' = NoPass
    /\ UNCHANGED <<auto_save, proposals, pending_proposals, reviewed_proposals,
                   proposal_files, export_files, pc, cur, caller>>
    /\ OutsideReviewUnchanged

create_pr_draft ==
    /\ pc = "idle"
    /\ ncalls < MaxCalls
    /\ \E p \in ProposalIds :
         /\ event' = [op |-> "create_pr_draft", p |-> p]
         /\ IF ~proposals[p].approved
            THEN /\ ret' = Returned("ValueError")
                 /\ pr_draft_files' = pr_draft_files
            ELSE /\ ret' = Returned("pr_draft")
                 /\ pr_draft_files' =
                        [pr_draft_files EXCEPT ![FlatName(proposals[p].repo_id)] =
                            DraftOf(proposals[p])]
    /\ review_ret' = "none"
    /\ ncalls' = ncalls + 1
    /\ pass' = NoPass
    /\ UNCHANGED <<auto_save, proposals, pending_proposals, reviewed_proposals,
                   proposal_files, export_files, pc, cur, caller>>
    /\ OutsideReviewUnchanged

(***************************************************************************)
(* Properties of the review system (checked under Spec).                   *)
(***************************************************************************)
Count(seq, x) == Cardinality({i \in DOMAIN seq : seq[i] = x})

InList(seq, x) == \E i \in DOMAIN seq : seq[i] = x

\* C1: create_pr_draft on a proposal whose approved flag is false raises the
\* ValueError and leaves the draft files as they were; a draft file is written
\* only by a create_pr_draft call on a proposal that is approved at that moment.
C1_DraftOnlyFromApproved ==
    [][ /\ (event'.op = "create_pr_draft" /\ pc = "idle" /\ ~proposals[event'.p].approved)
             => (ret'.value = "ValueError" /\ pr_draft_files' = pr_draft_files)
        /\ (pr_draft_files' # pr_draft_files)
             => /\ event'.op = "create_pr_draft"
                /\ proposals[event'.p].approved
                /\ ret'.value = "pr_draft"
                /\ pr_draft_files'[FlatName(proposals[event'.p].repo_id)].content
                       = proposals[event'.p].proposed_content ]_vars

\* C1 witness: create_pr_draft has just been refused for a rejected proposal.
C1_Witness ==
    /\ event.op = "create_pr_draft"
    /\ ret.value = "ValueError"
    /\ proposals[event.p].reviewed
    /\ ~proposals[event.p].approved
    /\ \A f \in FileNames : ~pr_draft_files[f].exists

\* C2: when a review returns True (an Approve), the proposal is reviewed and
\* approved, is in the reviewed list exactly once and is no longer pending,
\* whether review_proposal was called directly or by review_all_pending.
C2_ApprovedLeavesPending ==
    review_ret = "True" =>
        /\ proposals[event.p].reviewed
        /\ proposals[event.p].approved
        /\ Count(reviewed_proposals, event.p) = 1
        /\ ~InList(pending_proposals, event.p)

\* C3: when a rejection completes, the proposal is reviewed and not approved,
\* is in the reviewed list and is no longer in the pending list.
C3_RejectedLeavesPending ==
    event.op = "reason" =>
        /\ proposals[event.p].reviewed
        /\ ~proposals[event.p].approved
        /\ InList(reviewed_proposals, event.p)
        /\ ~InList(pending_proposals, event.p)

\* C4: a proposal whose rejection has completed carries a non-empty reason in
\* its reviewer notes.
C4_RejectionHasReason ==
    \A p \in ProposalIds :
        (proposals[p].reviewed /\ ~proposals[p].approved /\ ~(pc = "reason" /\ cur = p))
            => \E reason \in ReasonInputs \ {""} :
                   proposals[p].reviewer_notes = "Rejected: " \o reason

\* C5: a Skip changes no proposal, neither list and no file, and the review
\* returns False.
C5_SkipChangesNothing ==
    [][ (pc = "choice" /\ event'.op = "s")
            => /\ proposals' = proposals
               /\ InList(pending_proposals, cur) => InList(pending_proposals', cur)
               /\ pending_proposals' = pending_proposals
               /\ reviewed_proposals' = reviewed_proposals
               /\ proposal_files' = proposal_files
               /\ pr_draft_files' = pr_draft_files
               /\ review_ret' = "False" ]_vars

\* C5 witness: a never-reviewed pending proposal has just been skipped.
C5_Witness ==
    /\ event.op = "s"
    /\ review_ret = "False"
    /\ ~proposals[event.p].reviewed
    /\ InList(pending_proposals, event.p)
    /\ ~InList(reviewed_proposals, event.p)

\* C6: review_proposal with interactive=false returns False and changes no
\* proposal and neither list; and the approved flag of a proposal becomes
\* true in no step other than the Approve answer of the interactive review.
C6_NoAutomaticApproval ==
    [][ /\ (pc = "idle" /\ event'.op = "review_proposal(interactive=False)")
             => /\ ret'.value = "False"
                /\ review_ret' = "False"
                /\ proposals' = proposals
                /\ pending_proposals' = pending_proposals
                /\ reviewed_proposals' = reviewed_proposals
        /\ \A p \in 1..Len(proposals') :
             (proposals'[p].approved /\ (p > Len(proposals) \/ ~proposals[p].approved))
                 => (pc = "choice" /\ event'.op = "a" /\ cur = p) ]_vars

\* C6 witness: a non-interactive review of a pending, unapproved proposal has
\* just returned False.
C6_Witness ==
    /\ event.op = "review_proposal(interactive=False)"
    /\ ret.value = "False"
    /\ InList(pending_proposals, event.p)
    /\ ~proposals[event.p].approved

\* C7: with auto_save on, after a proposal is created and after its content is
\* edited in a review, the content file on disk holds its proposed content.
C7_DiskFollowsContent ==
    (auto_save /\ event.op \in {"create_proposal", "e"}) =>
        LET f == proposal_files[FlatName(proposals[event.p].repo_id)]
        IN  f.exists /\ f.content = proposals[event.p].proposed_content

\* C8: review_all_pending returns (number of Approve answers, number of Reject
\* answers) of the pass; a skipped proposal is counted in neither.
C8_CountsAreChoices ==
    ret.value = "counts" =>
        ret.counts = <<Count(pass.choices, "a"), Count(pass.choices, "r")>>

\* C32: once a proposal is approved its proposed content does not change
\* while approved stays true, whatever review actions follow on it, so the
\* content a PR draft carries is content a human approved.
C32_ApprovedContentIsFrozen ==
    [][ \A p \in 1..Len(proposals) :
          (proposals[p].approved /\ proposals'[p].approved)
              => proposals'[p].proposed_content = proposals[p].proposed_content ]_vars

\* C38: with auto_save on, creating a proposal leaves the persisted record
\* of every proposal created earlier in the session as it was, also that of
\* an earlier proposal for the same repository.
C38_OneRecordPerProposal ==
    [][ (auto_save /\ event'.op = "create_proposal" /\ Len(proposals') > Len(proposals))
            => \A p \in 1..Len(proposals) :
                   proposal_files'[FlatName(proposals[p].repo_id)]
                       = proposal_files[FlatName(proposals[p].repo_id)] ]_vars

\* get_statistics: the counts of the session
get_statistics ==
    [pending_proposals |-> Len(pending_proposals),
     reviewed_proposals |-> Len(reviewed_proposals),
     approved |-> Cardinality({i \in DOMAIN reviewed_proposals :
                                 proposals[reviewed_proposals[i]].approved}),
     rejected |-> Cardinality({i \in DOMAIN reviewed_proposals :
                                 ~proposals[reviewed_proposals[i]].approved})]

\* C39: between calls the pending and the reviewed list are disjoint and the
\* reviewed list holds each proposal at most once, so get_statistics
\* reports approved + rejected equal to the number of distinct reviewed
\* proposals and pending + reviewed equal to the number of proposals created.
C39_ListsPartitionProposals ==
    pc = "idle" =>
        /\ \A p \in 1..Len(proposals) :
              ~(InList(pending_proposals, p) /\ InList(reviewed_proposals, p))
        /\ \A p \in 1..Len(proposals) : Count(reviewed_proposals, p) <= 1
        /\ get_statistics.approved + get_statistics.rejected
             = Cardinality({p \in 1..Len(proposals) : InList(reviewed_proposals, p)})
        /\ get_statistics.pending_proposals + get_statistics.reviewed_proposals
             = Len(proposals)

(***************************************************************************)
(* Part 2: RepositoryMetadata, the Hub, the cache and discovery.           *)
(***************************************************************************)
\* number of discover_repositories calls on the instance
MaxDiscoveries == 2
\* number of periods of waiting between calls
MaxTicks == 1
\* largest limit argument
MaxLimit == 2

\* Settings.discovery_cache_ttl
discovery_cache_ttl == 3600
\* CacheManager.__init__(default_ttl=3600)
default_ttl == 3600
\* CacheManager.__init__(max_memory_size=100)
default_max_memory_size == 100
\* @retry(stop=stop_after_attempt(3))
stop_after_attempt == 3
\* one unit of RepositoryMetadata.priority_score is 1/20000 of a point, the
\* least common denominator of downloads/500, likes/10 and views/20000
ScoreUnit == 20000

Range(seq) == {seq[i] : i \in DOMAIN seq}

Min(a, b) == IF a <= b THEN a ELSE b

Max(a, b) == IF a >= b THEN a ELSE b

\* d[k] = v on a dict held as a function
Put(d, k, v) == [x \in (DOMAIN d) \cup {k} |-> IF x = k THEN v ELSE d[x]]

\* del d[k]
Drop(d, k) == [x \in (DOMAIN d) \ {k} |-> d[x]]

EmptyDict == [x \in {} |-> 0]

\* Optional[datetime] and its serialised form
NoneValue == [kind |-> "None"]

DatetimeValue(t) == [kind |-> "datetime", t |-> t]

\* datetime.isoformat()
IsoFormat(d) == [kind |-> "str", t |-> d.t]

(***************************************************************************)
(* The Hub: what list_datasets / list_models / hf_hub_download answer.     *)
(***************************************************************************)
NoReadme == [exists |-> FALSE, length |-> 0, words |-> {}]

\* DatasetInfo / ModelInfo and the README of each repository
HubInfo(id) ==
    CASE id = "lab/popular" ->
           [id |-> id, repo_type |-> "dataset", downloads |-> 6000, likes |-> 40,
            tags |-> <<"biology">>, license |-> "mit",
            created_at |-> DatetimeValue(1), lastModified |-> DatetimeValue(3),
            num_files |-> 3,
            readme |-> [exists |-> TRUE, length |-> 1500,
                        words |-> {"description", "usage", "license", "citation",
                                   "code fence", "install"}]]
      [] id = "lab/mid" ->
           [id |-> id, repo_type |-> "dataset", downloads |-> 900, likes |-> 5,
            tags |-> <<"chemistry">>, license |-> "mit",
            created_at |-> NoneValue, lastModified |-> NoneValue,
            num_files |-> 2,
            readme |-> [exists |-> TRUE, length |-> 200, words |-> {"data"}]]
      [] id = "lab/raw" ->
           [id |-> id, repo_type |-> "dataset", downloads |-> 100, likes |-> 0,
            tags |-> <<>>, license |-> "",
            created_at |-> DatetimeValue(2), lastModified |-> DatetimeValue(2),
            num_files |-> 1,
            readme |-> NoReadme]
      [] OTHER ->
           [id |-> "lab/net", repo_type |-> "model", downloads |-> 2500, likes |-> 10,
            tags |-> <<"biology">>, license |-> "",
            created_at |-> NoneValue, lastModified |-> NoneValue,
            num_files |-> 4,
            readme |-> NoReadme]

\* api.list_datasets(search=keyword, limit=n) / api.list_models(...): the ids
\* the Hub returns for a keyword, best match first
HubSearch(kind, keyword, n) ==
    LET all == CASE kind = "dataset" /\ keyword = "biology" -> <<"lab/popular", "lab/raw">>
                 [] kind = "dataset" /\ keyword = "chemistry" -> <<"lab/raw", "lab/mid">>
                 [] kind = "model" /\ keyword = "biology" -> <<"lab/net">>
                 [] OTHER -> <<>>
    IN  SubSeq(all, 1, Min(n, Len(all)))

(***************************************************************************)
(* RepositoryMetadata                                                      *)
(***************************************************************************)
\* _convert_dataset_to_metadata / _convert_model_to_metadata
ConvertToMetadata(info) ==
    [repo_id |-> info.id,
     repo_type |-> info.repo_type,
     tags |-> info.tags,
     created_at |-> info.created_at,
     updated_at |-> info.lastModified,
     downloads |-> info.downloads,
     likes |-> info.likes,
     views |-> 0,
     has_readme |-> FALSE,
     readme_length |-> 0,
     readme_quality_score |-> 0,
     num_files |-> 0,
     license |-> info.license,
     issues |-> <<>>,
     priority_score |-> 0]

\* section in content_lower: the words a README text contains (the three
\* backquotes of a code block are the word "code fence")
Contains(readme, w) ==
    \/ w \in readme.words
    \/ w = "install" /\ "installation" \in readme.words

important_sections ==
    {"description", "installation", "usage", "data", "license",
     "citation", "authors", "acknowledgments", "references"}

\* _assess_readme_quality, in tenths (min(1.0, score / 10))
AssessReadmeQuality(readme) ==
    LET lengthScore == IF readme.length > 1000 THEN 2
                       ELSE IF readme.length > 500 THEN 1 ELSE 0
        sectionScore == Cardinality({sec \in important_sections : Contains(readme, sec)})
    IN  Min(10, lengthScore + sectionScore)

\* _identify_readme_issues
IdentifyReadmeIssues(readme) ==
    (IF readme.length < 300
        THEN <<"README is too short (less than 300 characters)">> ELSE <<>>)
    \o (IF ~Contains(readme, "license") THEN <<"Missing license section">> ELSE <<>>)
    \o (IF ~Contains(readme, "citation") THEN <<"Missing citation section">> ELSE <<>>)
    \o (IF ~Contains(readme, "code fence") THEN <<"No code examples provided">> ELSE <<>>)
    \o (IF ~(Contains(readme, "install") \/ Contains(readme, "setup")
             \/ Contains(readme, "getting started"))
        THEN <<"Missing installation or setup instructions">> ELSE <<>>)

\* _enrich_single_repository: the README fetch either succeeds or raises,
\* and so does list_repo_files (listed is FALSE when it raises)
EnrichSingle(repo, listed) ==
    LET info == HubInfo(repo.repo_id)
        withReadme ==
            IF info.readme.exists
            THEN [repo EXCEPT !.has_readme = TRUE,
                              !.readme_length = info.readme.length,
                              !.readme_quality_score = AssessReadmeQuality(info.readme),
                              !.issues = IdentifyReadmeIssues(info.readme)]
            ELSE [repo EXCEPT !.has_readme = FALSE,
                              !.issues = Append(@, "Missing README.md file")]
    IN  IF listed THEN [withReadme EXCEPT !.num_files = info.num_files] ELSE withReadme

\* calculate_priority_score giving a missing README the weight of a short one
PriorityScoreShortForMissing(repo) ==
    LET download_score == Min(15 * ScoreUnit, repo.downloads * (ScoreUnit \div 500))
        like_score == Min(10 * ScoreUnit, repo.likes * (ScoreUnit \div 10))
        view_score == Min(5 * ScoreUnit, repo.views * (ScoreUnit \div 20000))
        documentation ==
            IF ~repo.has_readme \/ repo.readme_length < 300 THEN 25 * ScoreUnit
            ELSE IF repo.readme_length < 1000 THEN 15 * ScoreUnit
            ELSE Max(0, 10 * ScoreUnit - repo.readme_quality_score * ScoreUnit)
        completeness ==
            (IF repo.license = "" THEN 5 * ScoreUnit ELSE 0)
            + (IF repo.tags = <<>> THEN 5 * ScoreUnit ELSE 0)
            + (IF repo.issues # <<>>
                  THEN Min(10 * ScoreUnit, Len(repo.issues) * 2 * ScoreUnit) ELSE 0)
    IN  Min(100 * ScoreUnit,
            download_score + like_score + view_score + documentation + completeness)

\* calculate_priority_score, in ScoreUnit-ths of a point
PriorityScore(repo) ==
    LET download_score == Min(15 * ScoreUnit, repo.downloads * (ScoreUnit \div 500))
        like_score == Min(10 * ScoreUnit, repo.likes * (ScoreUnit \div 10))
        view_score == Min(5 * ScoreUnit, repo.views * (ScoreUnit \div 20000))
        popularity == download_score + like_score + view_score
        documentation ==
            IF ~repo.has_readme THEN 40 * ScoreUnit
            ELSE IF repo.readme_length < 300 THEN 25 * ScoreUnit
            ELSE IF repo.readme_length < 1000 THEN 15 * ScoreUnit
            ELSE Max(0, 10 * ScoreUnit - repo.readme_quality_score * ScoreUnit)
        completeness ==
            (IF repo.license = "" THEN 5 * ScoreUnit ELSE 0)
            + (IF repo.tags = <<>> THEN 5 * ScoreUnit ELSE 0)
            + (IF repo.issues # <<>>
                  THEN Min(10 * ScoreUnit, Len(repo.issues) * 2 * ScoreUnit) ELSE 0)
    IN  Min(100 * ScoreUnit, popularity + documentation + completeness)

calculate_priority_score(repo) == [repo EXCEPT !.priority_score = PriorityScore(repo)]

\* to_dict: the timestamps become ISO strings
to_dict(repo) ==
    [repo EXCEPT !.created_at = IF @.kind = "datetime" THEN IsoFormat(@) ELSE @,
                 !.updated_at = IF @.kind = "datetime" THEN IsoFormat(@) ELSE @]

\* from_dict parses the two timestamps with datetime.fromisoformat, which
\* raises TypeError on anything that is not a string
FromDictRaises(data) ==
    \/ data.created_at.kind = "datetime"
    \/ data.updated_at.kind = "datetime"

\* from_dict writes the parsed timestamps back into the dict it was given ...
FromDictLeaves(data) ==
    [data EXCEPT !.created_at = IF @.kind = "str" THEN DatetimeValue(@.t) ELSE @,
                 !.updated_at = IF @.kind = "str" THEN DatetimeValue(@.t) ELSE @]

\* from_dict that hands the dict to the constructor as it came
FromDictUnparsed(data) == data

\* ... and builds the object from it
from_dict(data) == FromDictLeaves(data)

(***************************************************************************)
(* RepositoryDiscovery: search, filter, enrich, sort                       *)
(***************************************************************************)
\* _load_science_keywords: the default keywords
science_keywords ==
    <<"science", "biology", "genomics", "proteomics", "chemistry",
      "physics", "astronomy", "medicine", "medical", "clinical",
      "healthcare", "neuroscience", "ecology", "climate", "environmental",
      "computational-biology", "bioinformatics", "drug-discovery",
      "molecular", "genetics", "epidemiology", "pharmacology">>

\* the order of str: the keywords that reach sorted(), smallest first
StrOrder == <<"biology", "chemistry", "genomics", "proteomics", "science">>

\* the order of the filter names, smallest first
FilterOrder == <<"has_readme", "max_readme_length", "min_downloads", "min_likes",
                "needs_improvement">>

RECURSIVE Join(_, _)
\* sep.join(parts)
Join(parts, sep) ==
    IF parts = <<>> THEN ""
    ELSE IF Len(parts) = 1 THEN parts[1]
    ELSE parts[1] \o sep \o Join(Tail(parts), sep)

\* [x for x in order if x in elems]
Select(order, elems) == SelectSeq(order, LAMBDA x : x \in elems)

\* str(v) of a filter value in the f-string of _generate_cache_key
FilterStr(filters, name) ==
    IF name \in {"has_readme", "needs_improvement"}
    THEN BoolStr(filters[name])
    ELSE ToString(filters[name])

\* _generate_cache_key: neither limit nor sort_by is a parameter
GenerateCacheKey(repo_type, keywords, filters) ==
    LET first5 == SubSeq(keywords, 1, Min(5, Len(keywords)))
        sortedKw == Select(StrOrder, Range(first5))
        names == Select(FilterOrder, DOMAIN filters)
        filterParts == [i \in DOMAIN names |-> names[i] \o "_" \o FilterStr(filters, names[i])]
        key_parts == <<"discovery", repo_type, Join(sortedKw, "-")>>
                     \o (IF DOMAIN filters # {} THEN <<Join(filterParts, "-")>> ELSE <<>>)
    IN  Join(key_parts, ":")

\* What goes wrong with the Hub during a call: the search for one keyword
\* raises error inside api.list_datasets / api.list_models, or ("timeout")
\* does not answer within the 30 s of future.result.
NoFault == [keyword |-> "", error |-> "none"]

SearchFaults ==
    {[keyword |-> "biology", error |-> e]
     : e \in {"NetworkError", "RateLimitError", "ValueError", "timeout"}}

\* _search_datasets_sync / _search_models_sync: every exception of the api
\* call is caught and logged, and the search returns []
SearchSync(kind, keyword, n, fault) ==
    IF fault.keyword = keyword /\ fault.error \notin {"none", "timeout"}
    THEN <<>>
    ELSE HubSearch(kind, keyword, n)

\* future.result(timeout=30) raises
ResultRaises(keyword, fault) == fault.keyword = keyword /\ fault.error = "timeout"

RECURSIVE MergeResults(_, _, _, _, _, _)
\* the loop over the futures of _discover_datasets / _discover_models:
\* results are taken in keyword order, an id is kept once, and both loops
\* stop as soon as `limit` items are collected; a future that raises adds
\* one to stats["errors"].  acc is [list, errors] so far.
MergeResults(kind, keywords, per_keyword_limit, limit, fault, acc) ==
    IF keywords = <<>> THEN acc
    ELSE LET results == SearchSync(kind, Head(keywords), per_keyword_limit, fault)
             Step[i \in 0..Len(results)] ==
                 IF i = 0 THEN acc.list
                 ELSE LET before == Step[i - 1]
                      IN  IF Len(before) >= limit /\ Len(before) > Len(acc.list) THEN before
                          ELSE IF \E j \in DOMAIN before : before[j].repo_id = results[i]
                               THEN before
                               ELSE Append(before, ConvertToMetadata(HubInfo(results[i])))
             after == IF ResultRaises(Head(keywords), fault)
                      THEN [list |-> acc.list, errors |-> acc.errors + 1]
                      ELSE [list |-> Step[Len(results)], errors |-> acc.errors]
         IN  IF Len(after.list) >= limit THEN after
             ELSE MergeResults(kind, Tail(keywords), per_keyword_limit, limit, fault, after)

\* _discover_datasets / _discover_models: the list returned and the errors counted
DiscoverKind(kind, keywords, limit, fault) ==
    LET per_keyword_limit == Max(10, Min(100, limit \div Max(1, Len(keywords))))
        found == MergeResults(kind, keywords, per_keyword_limit, limit, fault,
                              [list |-> <<>>, errors |-> 0])
    IN  [list |-> SubSeq(found.list, 1, Min(limit, Len(found.list))),
         errors |-> found.errors]

\* one list comprehension of _apply_filters
Keep(repositories, filters, name, kept) ==
    IF name \in DOMAIN filters
    THEN SelectSeq(repositories, LAMBDA r : r \in kept)
    ELSE repositories

\* _apply_filters with strict lower bounds
ApplyFiltersExclusive(repositories, filters) ==
    LET byDownloads == Keep(repositories, filters, "min_downloads",
                            {r \in Range(repositories) :
                                r.downloads > filters["min_downloads"]})
    IN  Keep(byDownloads, filters, "min_likes",
             {r \in Range(byDownloads) : r.likes > filters["min_likes"]})

\* _apply_filters
ApplyFilters(repositories, filters) ==
    LET byDownloads == Keep(repositories, filters, "min_downloads",
                            {r \in Range(repositories) :
                                r.downloads >= filters["min_downloads"]})
        byLikes == Keep(byDownloads, filters, "min_likes",
                        {r \in Range(byDownloads) : r.likes >= filters["min_likes"]})
        byReadme == Keep(byLikes, filters, "has_readme",
                         {r \in Range(byLikes) : r.has_readme = filters["has_readme"]})
        byLength == Keep(byReadme, filters, "max_readme_length",
                         {r \in Range(byReadme) :
                             r.readme_length <= filters["max_readme_length"]})
    IN  IF "needs_improvement" \in DOMAIN filters /\ filters["needs_improvement"]
        THEN SelectSeq(byLength, LAMBDA r : r.issues # <<>> \/ r.readme_quality_score < 5)
        ELSE byLength

\* the orders in which as_completed can hand back the futures
CompletionOrders(n) == {f \in [1..n -> 1..n] : \A i, j \in 1..n : i # j => f[i] # f[j]}

\* _enrich_metadata_parallel keeping only the repositories that have a README
EnrichMetadataParallelDropping(repositories, order, unlisted) ==
    SelectSeq([i \in 1..Len(repositories) |->
                  EnrichSingle(repositories[order[i]], TRUE)],
              LAMBDA r : r.has_readme)

\* _enrich_metadata_parallel, for one completion order; unlisted holds the
\* ids for which list_repo_files raises
EnrichMetadataParallel(repositories, order, unlisted) ==
    [i \in 1..Len(repositories) |->
        EnrichSingle(repositories[order[i]], repositories[order[i]].repo_id \notin unlisted)]

\* the key function of _sort_repositories
SortKey(repo, sort_by) ==
    CASE sort_by = "downloads" -> repo.downloads
      [] sort_by = "likes" -> repo.likes
      [] sort_by = "priority" -> repo.priority_score
      [] sort_by = "readme_quality" -> repo.readme_quality_score
      [] OTHER -> 0

\* sorted(repositories, key=..., reverse=True): stable, so equal keys keep
\* their order; any other sort_by leaves the list as it is
SortRepositories(repositories, sort_by) ==
    LET n == Len(repositories)
        \* the position of item i in the result
        Pos(i) == 1 + Cardinality({j \in 1..n :
                       \/ SortKey(repositories[j], sort_by) > SortKey(repositories[i], sort_by)
                       \/ /\ SortKey(repositories[j], sort_by) = SortKey(repositories[i], sort_by)
                          /\ j < i})
    IN  IF sort_by \in {"downloads", "likes", "priority", "readme_quality"}
        THEN [k \in 1..n |-> repositories[CHOOSE i \in 1..n : Pos(i) = k]]
        ELSE repositories

(***************************************************************************)
(* CacheManager.  A cache is the record cm of memory_cache, access_times,  *)
(* cache_files and stats; an operator yields the cache after the call.     *)
(***************************************************************************)
\* time.time(): later than every access recorded so far
Clock(times) == 1 + (IF DOMAIN times = {} THEN 0
                     ELSE CHOOSE m \in {times[k] : k \in DOMAIN times} : \A x \in {times[k] : k \in DOMAIN times} : x <= m)

\* _is_valid_entry
IsValidEntry(entry, t) == t < entry.expiry

\* _add_to_memory_cache
AddToMemoryCache(cm, key, entry) ==
    LET evict == /\ Cardinality(DOMAIN cm.memory_cache) >= cm.max_memory_size
                 /\ DOMAIN cm.access_times # {}
        lru_key == CHOOSE k \in DOMAIN cm.access_times :
                       \A x \in DOMAIN cm.access_times : cm.access_times[k] <= cm.access_times[x]
        mem == IF evict THEN Drop(cm.memory_cache, lru_key) ELSE cm.memory_cache
        times == IF evict THEN Drop(cm.access_times, lru_key) ELSE cm.access_times
        mem2 == Put(mem, key, entry)
    IN  [cm EXCEPT !.memory_cache = mem2,
                   !.access_times = Put(times, key, Clock(cm.access_times)),
                   !.stats.memory_size = Cardinality(DOMAIN mem2)]

\* CacheManager.get that leaves the access time of a memory hit as it was
CacheGetNoRefresh(cm, key, t) ==
    LET inMemory == key \in DOMAIN cm.memory_cache
        memoryHit == inMemory /\ IsValidEntry(cm.memory_cache[key], t)
        dropped == IF inMemory
                   THEN [cm EXCEPT !.memory_cache = Drop(@, key),
                                   !.access_times = Drop(@, key)]
                   ELSE cm
        onDisk == key \in DOMAIN cm.cache_files
        fileHit == onDisk /\ IsValidEntry(cm.cache_files[key], t)
        unlinked == IF onDisk THEN [dropped EXCEPT !.cache_files = Drop(@, key)] ELSE dropped
    IN  IF memoryHit
        THEN [cm |-> [cm EXCEPT !.stats.hits = @ + 1],
              found |-> TRUE, value |-> cm.memory_cache[key].value]
        ELSE IF fileHit
        THEN [cm |-> [AddToMemoryCache(dropped, key, cm.cache_files[key])
                         EXCEPT !.stats.hits = @ + 1],
              found |-> TRUE, value |-> cm.cache_files[key].value]
        ELSE [cm |-> [unlinked EXCEPT !.stats.misses = @ + 1],
              found |-> FALSE, value |-> <<>>]

\* CacheManager.get at time t: found is FALSE when the default None comes back
CacheGet(cm, key, t) ==
    LET inMemory == key \in DOMAIN cm.memory_cache
        memoryHit == inMemory /\ IsValidEntry(cm.memory_cache[key], t)
        dropped == IF inMemory
                   THEN [cm EXCEPT !.memory_cache = Drop(@, key),
                                   !.access_times = Drop(@, key)]
                   ELSE cm
        onDisk == key \in DOMAIN cm.cache_files
        fileHit == onDisk /\ IsValidEntry(cm.cache_files[key], t)
        unlinked == IF onDisk THEN [dropped EXCEPT !.cache_files = Drop(@, key)] ELSE dropped
    IN  IF memoryHit
        THEN [cm |-> [cm EXCEPT !.stats.hits = @ + 1,
                                !.access_times = Put(@, key, Clock(cm.access_times))],
              found |-> TRUE, value |-> cm.memory_cache[key].value]
        ELSE IF fileHit
        THEN [cm |-> [AddToMemoryCache(dropped, key, cm.cache_files[key])
                         EXCEPT !.stats.hits = @ + 1],
              found |-> TRUE, value |-> cm.cache_files[key].value]
        ELSE [cm |-> [unlinked EXCEPT !.stats.misses = @ + 1],
              found |-> FALSE, value |-> <<>>]

\* the ttl argument None
TtlNone == -1

\* CacheManager.set at time t; a ttl of None or 0 is falsy
CacheSet(cm, key, value, ttl, t) ==
    LET entry == [value |-> value,
                  expiry |-> t + (IF ttl # TtlNone /\ ttl # 0 THEN ttl ELSE default_ttl),
                  created |-> t]
        added == AddToMemoryCache(cm, key, entry)
    IN  [added EXCEPT !.cache_files = Put(@, key, entry),
                      !.stats.sets = @ + 1]

\* CacheManager.delete
CacheDelete(cm, key) ==
    [cm EXCEPT !.memory_cache = IF key \in DOMAIN @ THEN Drop(@, key) ELSE @,
               !.access_times = IF key \in DOMAIN cm.memory_cache THEN Drop(@, key) ELSE @,
               !.cache_files = IF key \in DOMAIN @ THEN Drop(@, key) ELSE @,
               !.stats.deletes = @ + 1]

\* the keys of the cache calls, with their characters
CacheKeyChars ==
    {<<"user:1", <<"u", "s", "e", "r", ":", "1">>>>,
     <<"user:2", <<"u", "s", "e", "r", ":", "2">>>>,
     <<"repo:1", <<"r", "e", "p", "o", ":", "1">>>>}

CacheKeys == {kc[1] : kc \in CacheKeyChars}

KeyChars(key) == (CHOOSE kc \in CacheKeyChars : kc[1] = key)[2]

\* hashlib.md5(key.encode()).hexdigest() of those keys
Md5Hex ==
    {<<"user:1", <<"b", "d", "b", "1", "d", "d", "1", "0", "5", "6", "7", "9", "9", "7", "9", "c", "a", "8", "2", "b", "2", "8", "e", "d", "d", "1", "c", "8", "c", "c", "d", "2">>>>,
     <<"user:2", <<"f", "b", "b", "7", "9", "8", "c", "2", "5", "2", "4", "1", "0", "2", "0", "1", "2", "e", "7", "b", "d", "2", "2", "e", "e", "f", "0", "0", "e", "5", "2", "d">>>>,
     <<"repo:1", <<"1", "6", "7", "0", "7", "b", "4", "9", "6", "d", "2", "0", "2", "1", "5", "c", "e", "7", "1", "2", "e", "a", "6", "5", "5", "4", "e", "b", "8", "e", "6", "0">>>>}

\* _get_cache_file_path: the stem of the file of a key
FileStem(key) == (CHOOSE kh \in Md5Hex : kh[1] = key)[2]

\* `pattern in text` on strings
InText(pattern, text) ==
    \E i \in 0..(Len(text) - Len(pattern)) :
        SubSeq(text, i + 1, i + Len(pattern)) = pattern

RECURSIVE DeleteAll(_, _)
\* the loop of clear over keys_to_delete
DeleteAll(cm, keys) ==
    IF keys = {} THEN cm
    ELSE LET key == CHOOSE k \in keys : TRUE
         IN  DeleteAll(CacheDelete(cm, key), keys \ {key})

\* CacheManager.clear; the pattern None or "" is <<>>
CacheClear(cm, pattern) ==
    IF pattern # <<>>
    THEN LET keys_to_delete == {k \in DOMAIN cm.memory_cache : InText(pattern, KeyChars(k))}
             deleted == DeleteAll(cm, keys_to_delete)
             matching == {k \in DOMAIN deleted.cache_files : InText(pattern, FileStem(k))}
         IN  [cm |-> [deleted EXCEPT !.cache_files = [k \in DOMAIN @ \ matching |-> @[k]]],
              cleared |-> Cardinality(keys_to_delete) + Cardinality(matching)]
    ELSE [cm |-> [cm EXCEPT !.memory_cache = EmptyDict,
                            !.access_times = EmptyDict,
                            !.cache_files = EmptyDict],
          cleared |-> Cardinality(DOMAIN cm.memory_cache)
                        + Cardinality(DOMAIN cm.cache_files)]

\* CacheManager.cleanup_expired at time t
CleanupExpired(cm, t) ==
    LET keys_to_delete == {k \in DOMAIN cm.memory_cache : ~IsValidEntry(cm.memory_cache[k], t)}
        expired == {k \in DOMAIN cm.cache_files : ~IsValidEntry(cm.cache_files[k], t)}
    IN  [cm |-> [cm EXCEPT !.memory_cache = [k \in DOMAIN @ \ keys_to_delete |-> @[k]],
                           !.access_times = [k \in DOMAIN @ \ keys_to_delete |-> @[k]],
                           !.cache_files = [k \in DOMAIN @ \ expired |-> @[k]]],
          removed |-> Cardinality(keys_to_delete) + Cardinality(expired)]

\* The cached list after `[RepositoryMetadata.from_dict(item) for item in
\* cached_data]`: from_dict rewrites each dict in place, up to the first one
\* whose timestamp it cannot parse
AfterFromDict(cached_data) ==
    LET raising == {i \in DOMAIN cached_data : FromDictRaises(cached_data[i])}
        stop == IF raising = {} THEN Len(cached_data) + 1
                ELSE CHOOSE i \in raising : \A j \in raising : i <= j
    IN  [i \in DOMAIN cached_data |->
            IF i < stop THEN FromDictLeaves(cached_data[i])
            ELSE IF i = stop /\ cached_data[i].created_at.kind = "str"
                 THEN [cached_data[i] EXCEPT !.created_at = DatetimeValue(@.t)]
                 ELSE cached_data[i]]

(***************************************************************************)
(* RepositoryDiscovery: the instance and its operations                    *)
(***************************************************************************)
\* repo_type: the two kinds are searched alike, so "dataset" stands for either
RepoTypes == {"dataset", "both"}

\* keywords=None is <<>>
KeywordArgs == {<<>>, <<"biology">>}

\* filters=None is the empty dict
FilterArgs == {EmptyDict, [x \in {"min_downloads"} |-> 6000]}

\* the other filters of _apply_filters
MoreFilterArgs ==
    {[x \in {"min_likes"} |-> 40],
     [x \in {"has_readme"} |-> TRUE],
     [x \in {"has_readme"} |-> FALSE],
     [x \in {"max_readme_length"} |-> 1000],
     [x \in {"needs_improvement"} |-> TRUE]}

SortArgs == {"downloads", "priority"}

NoCall == [repo_type |-> "", limit |-> 0, keywords |-> <<>>, filters |-> EmptyDict,
           sort_by |-> "", fault |-> NoFault, cache_key |-> "", cache_hit |-> FALSE]

NoResult == [status |-> "none", repos |-> <<>>, attempts |-> 0]

NoTrace == [found |-> <<>>, filtered |-> <<>>]

\* CacheManager.__init__, but for max_memory_size
InitCacheManager ==
    /\ memory_cache = EmptyDict
    /\ access_times = EmptyDict
    /\ cache_files = EmptyDict
    /\ cache_stats = [hits |-> 0, misses |-> 0, sets |-> 0, deletes |-> 0,
                      memory_size |-> 0]

InitDiscovery ==
    /\ max_memory_size = default_max_memory_size
    /\ InitCacheManager
    /\ stats = [total_discovered |-> 0, total_processed |-> 0, cache_hits |-> 0,
                api_calls |-> 0, errors |-> 0]
    /\ utcnow = 0
    /\ ndisc = 0
    /\ nticks = 0
    /\ disc_call = NoCall
    /\ disc_ret = NoResult
    /\ disc_trace = NoTrace

\* the CacheManager of the instance
TheCache == [max_memory_size |-> max_memory_size,
             memory_cache |-> memory_cache, access_times |-> access_times,
             cache_files |-> cache_files, stats |-> cache_stats]

SetCache(cm) ==
    /\ memory_cache' = cm.memory_cache
    /\ access_times' = cm.access_times
    /\ cache_files' = cm.cache_files
    /\ cache_stats' = cm.stats

\* discover_repositories, the cache-hit branch, on statistics st
ServeFromCache(got, key, st) ==
    LET cached_data == got.value
        raises == \E i \in DOMAIN cached_data : FromDictRaises(cached_data[i])
    IN  [cm |-> [got.cm EXCEPT !.memory_cache[key].value = AfterFromDict(cached_data)],
         stats |-> [st EXCEPT !.cache_hits = @ + 1],
         ret |-> IF raises THEN [status |-> "TypeError", repos |-> <<>>, attempts |-> 0]
                 ELSE [status |-> "ok",
                       repos |-> [i \in DOMAIN cached_data |-> from_dict(cached_data[i])],
                       attempts |-> 0],
         trace |-> NoTrace,
         cache_hit |-> TRUE]

\* discover_repositories past the cache check, up to the truncation to limit:
\* the lists it can end with, one for each order in which the enrichment
\* futures complete, and what it adds to the statistics
FreshOutcomes(repo_type, limit, keywords, filters, sort_by, fault) ==
    LET kindLimit == IF repo_type = "both" THEN limit \div 2 ELSE limit
        nothing == [list |-> <<>>, errors |-> 0]
        datasets == IF repo_type \in {"dataset", "both"}
                    THEN DiscoverKind("dataset", keywords, kindLimit, fault) ELSE nothing
        models == IF repo_type \in {"model", "both"}
                  THEN DiscoverKind("model", keywords, kindLimit, fault) ELSE nothing
        searches == (IF repo_type \in {"dataset", "both"} THEN Len(keywords) ELSE 0)
                    + (IF repo_type \in {"model", "both"} THEN Len(keywords) ELSE 0)
        found == datasets.list \o models.list
        filtered == IF DOMAIN filters # {} THEN ApplyFilters(found, filters) ELSE found
    IN  {LET enriched == EnrichMetadataParallel(filtered, order, {})
             scored == [i \in DOMAIN enriched |-> calculate_priority_score(enriched[i])]
             sorted == SortRepositories(scored, sort_by)
         IN  [repositories |-> SubSeq(sorted, 1, Min(limit, Len(sorted))),
              api_calls |-> searches,
              errors |-> datasets.errors + models.errors,
              total_processed |-> Len(enriched),
              trace |-> [found |-> found, filtered |-> filtered]]
         : order \in CompletionOrders(Len(filtered))}

\* the arguments of a call (repo_type, limit, keywords, filters, sort_by) and
\* what goes wrong with the Hub while it runs
DiscoveryArgs ==
    (RepoTypes \X (1..MaxLimit) \X KeywordArgs \X FilterArgs \X SortArgs \X {NoFault})
    \cup ({"dataset"} \X {MaxLimit} \X {<<>>} \X MoreFilterArgs \X {"downloads"} \X {NoFault})
    \cup ({"dataset"} \X {MaxLimit} \X {<<>>} \X {EmptyDict} \X {"downloads"} \X SearchFaults)

\* keywords = keywords or self.science_keywords
KeywordsOrDefault(kw) == IF kw # <<>> THEN kw ELSE science_keywords

\* the calls that can be made, each with its cache key (_generate_cache_key)
\* and with what the Hub branch would yield for it (FreshOutcomes)
DiscoveryCalls ==
    {[repo_type |-> a[1], limit |-> a[2], keywords |-> a[3], filters |-> a[4],
      sort_by |-> a[5], fault |-> a[6],
      cache_key |-> GenerateCacheKey(a[1], KeywordsOrDefault(a[3]), a[4]),
      outcomes |-> FreshOutcomes(a[1], a[2], KeywordsOrDefault(a[3]), a[4], a[5], a[6])]
     : a \in DiscoveryArgs}

\* discover_repositories, the branch that asks the Hub, at time t
DiscoverFresh(got, key, st, out, t) ==
    \* cache_ttl=None: cache_ttl or self.settings.discovery_cache_ttl
    LET cache_ttl == discovery_cache_ttl
        repositories == out.repositories
        cache_data == [i \in DOMAIN repositories |-> to_dict(repositories[i])]
    IN  [cm |-> CacheSet(got.cm, key, cache_data, cache_ttl, t),
         stats |-> [st EXCEPT !.api_calls = @ + out.api_calls,
                              !.errors = @ + out.errors,
                              !.total_processed = @ + out.total_processed,
                              !.total_discovered = @ + Len(repositories)],
         ret |-> [status |-> "ok", repos |-> repositories, attempts |-> 0],
         trace |-> out.trace,
         cache_hit |-> FALSE]

\* the body of discover_repositories, run once
Attempt(cm, st, call, out, t) ==
    LET key == call.cache_key
        got == CacheGet(cm, key, t)
    IN  IF got.found /\ got.value # <<>>
        THEN ServeFromCache(got, key, st)
        ELSE DiscoverFresh(got, key, st, out, t)

\* retry_if_exception_type((NetworkError, RateLimitError))
RetryOn == {"NetworkError", "RateLimitError"}

RECURSIVE WithRetry(_, _, _, _, _, _)
\* the @retry decorator: the body is run again, on the state the failed
\* attempt left, while it raises one of RetryOn and attempts remain
WithRetry(cm, st, call, out, t, attempt_number) ==
    LET r == Attempt(cm, st, call, out, t)
    IN  IF r.ret.status \in RetryOn /\ attempt_number < stop_after_attempt
        THEN WithRetry(r.cm, r.stats, call, out, t, attempt_number + 1)
        ELSE [r EXCEPT !.ret.attempts = attempt_number]

discover_repositories ==
    /\ ndisc < MaxDiscoveries
    /\ \E call \in DiscoveryCalls : \E out \in call.outcomes :
         LET r == WithRetry(TheCache, stats, call, out, utcnow, 1)
         IN  /\ disc_call' = [repo_type |-> call.repo_type, limit |-> call.limit,
                              keywords |-> call.keywords, filters |-> call.filters,
                              sort_by |-> call.sort_by, fault |-> call.fault,
                              cache_key |-> call.cache_key, cache_hit |-> r.cache_hit]
             /\ SetCache(r.cm)
             /\ stats' = r.stats
             /\ disc_ret' = r.ret
             /\ disc_trace' = r.trace
    /\ ndisc' = ndisc + 1
    /\ UNCHANGED <<max_memory_size, utcnow, nticks>>
    /\ OutsideDiscoveryUnchanged

\* the arguments of two calls are the same
SameArgs(a, b) ==
    /\ a.repo_type = b.repo_type /\ a.limit = b.limit /\ a.keywords = b.keywords
    /\ a.filters = b.filters /\ a.sort_by = b.sort_by /\ a.fault = b.fault

\* discover_repositories once more, with the arguments of the call before,
\* after a call that was served from the cache
discover_repositories_again ==
    /\ ndisc = MaxDiscoveries
    /\ disc_call.cache_hit
    /\ disc_ret.status = "ok"
    /\ \E call \in DiscoveryCalls : \E out \in call.outcomes :
         LET r == WithRetry(TheCache, stats, call, out, utcnow, 1)
         IN  /\ SameArgs(call, disc_call)
             /\ disc_call' = [disc_call EXCEPT !.cache_hit = r.cache_hit]
             /\ SetCache(r.cm)
             /\ stats' = r.stats
             /\ disc_ret' = r.ret
             /\ disc_trace' = r.trace
    /\ ndisc' = ndisc + 1
    /\ UNCHANGED <<max_memory_size, utcnow, nticks>>
    /\ OutsideDiscoveryUnchanged

\* Time passes between two calls: a whole cache lifetime.
tick ==
    /\ nticks < MaxTicks
    /\ utcnow' = utcnow + discovery_cache_ttl
    /\ nticks' = nticks + 1
    /\ UNCHANGED <<max_memory_size, memory_cache, access_times, cache_files,
                   cache_stats, stats, ndisc, disc_call, disc_ret, disc_trace>>
    /\ OutsideDiscoveryUnchanged

(***************************************************************************)
(* Claims about discovery.                                                 *)
(***************************************************************************)
\* seq is non-increasing in the field read by Key
NonIncreasing(seq, Key(_)) ==
    \A i \in 1..(Len(seq) - 1) : Key(seq[i]) >= Key(seq[i + 1])

\* C9: every discover_repositories(limit=L, ...) call that returns, returns
\* at most L repositories, whatever calls were made before it on the
\* instance and whether or not the result comes from the cache.
C9_AtMostLimit ==
    disc_ret.status = "ok" => Len(disc_ret.repos) <= disc_call.limit

\* C10: a call with sort_by="priority" returns a list that is non-increasing
\* in priority_score, and a call with sort_by="downloads" a list that is
\* non-increasing in downloads, whatever calls were made before it.
C10_SortedAsRequested ==
    disc_ret.status = "ok" =>
        /\ disc_call.sort_by = "priority" =>
               NonIncreasing(disc_ret.repos, LAMBDA r : r.priority_score)
        /\ disc_call.sort_by = "downloads" =>
               NonIncreasing(disc_ret.repos, LAMBDA r : r.downloads)

\* the cache holds an unexpired entry under key, in memory or on disk
HoldsFresh(key) ==
    \/ key \in DOMAIN memory_cache /\ utcnow < memory_cache[key].expiry
    \/ key \in DOMAIN cache_files /\ utcnow < cache_files[key].expiry

\* what is cached under key, as CacheManager.get finds it
CachedValue(key) ==
    IF key \in DOMAIN memory_cache /\ utcnow < memory_cache[key].expiry
    THEN memory_cache[key].value
    ELSE cache_files[key].value

\* C11: a discover_repositories call whose key has an unexpired cache entry
\* returns the cached result (an empty list included), records a cache hit
\* and makes no Hub search: api_calls and total_processed stay as they were.
C11_FreshEntryIsServed ==
    [][(ndisc' = ndisc + 1 /\ HoldsFresh(disc_call'.cache_key)) =>
          /\ disc_ret'.status = "ok"
          /\ Len(disc_ret'.repos) = Len(CachedValue(disc_call'.cache_key))
          /\ \A i \in DOMAIN disc_ret'.repos :
                 disc_ret'.repos[i].repo_id = CachedValue(disc_call'.cache_key)[i].repo_id
          /\ stats'.cache_hits = stats.cache_hits + 1
          /\ stats'.api_calls = stats.api_calls
          /\ stats'.total_processed = stats.total_processed]_vars

\* C33: a discover_repositories call that repeats the arguments of the call
\* before it while the cached entry is unexpired succeeds and returns a list
\* equal in content to the one the call before returned, however many such
\* calls were served from the cache already.
C33_RepeatedCallsAgree ==
    [][(/\ ndisc' = ndisc + 1
        /\ ndisc > 0
        /\ SameArgs(disc_call, disc_call')
        /\ disc_ret.status = "ok"
        /\ HoldsFresh(disc_call'.cache_key))
       => /\ disc_ret'.status = "ok"
          /\ disc_ret'.repos = disc_ret.repos]_vars

\* the ids of a list of repositories, in order
Ids(repositories) == [i \in DOMAIN repositories |-> repositories[i].repo_id]

C13_ReadmeFiltersHold ==
    LET f == disc_call.filters
    IN  disc_ret.status = "ok" =>
           \A i \in DOMAIN disc_ret.repos :
              LET r == disc_ret.repos[i]
              IN  /\ "has_readme" \in DOMAIN f => r.has_readme = f["has_readme"]
                  /\ "max_readme_length" \in DOMAIN f =>
                         r.readme_length <= f["max_readme_length"]
                  /\ ("needs_improvement" \in DOMAIN f /\ f["needs_improvement"]) =>
                         (r.issues # <<>> \/ r.readme_quality_score < 5)

\* C17: when a keyword search raises NetworkError or RateLimitError during
\* a call, the whole operation is attempted again (2 or 3 attempts in all);
\* no call takes more than 3 attempts, and an error of another class leaves
\* it at a single attempt.
C17_RetriedOnNetworkErrors ==
    (disc_ret.status # "none" /\ ~disc_call.cache_hit) =>
        /\ disc_call.fault.error \in RetryOn => disc_ret.attempts \in 2..stop_after_attempt
        /\ disc_call.fault.error \notin RetryOn => disc_ret.attempts = 1
        /\ disc_ret.attempts <= stop_after_attempt

\* C18: when the search for one keyword fails during a call, the results of
\* the other keywords are still merged into what the call finds, and
\* stats["errors"] goes up by exactly one for the keyword that failed.
C18_FailedSearchIsCounted ==
    [][(ndisc' = ndisc + 1 /\ ~disc_call'.cache_hit /\ disc_call'.fault.error # "none") =>
          /\ \A id \in Range(HubSearch("dataset", "chemistry", MaxLimit)) :
                 id \in Range(Ids(disc_trace'.found))
          /\ stats'.errors = stats.errors + 1]_vars

(***************************************************************************)
(* _enrich_metadata_parallel on its own (specification SpecEnrich)         *)
(***************************************************************************)
\* longest list handed to one enrichment
MaxBatch == 3

HubIds == {"lab/popular", "lab/mid", "lab/raw", "lab/net"}

\* lists of distinct repositories fresh from _convert_*_to_metadata
Batches ==
    UNION {{[i \in 1..n |-> ConvertToMetadata(HubInfo(ids[i]))]
            : ids \in {f \in [1..n -> HubIds] : \A i, j \in 1..n : i # j => f[i] # f[j]}}
           : n \in 0..MaxBatch}

NoEnrichCall == [repositories |-> <<>>, order |-> <<>>, unlisted |-> {}]

InitEnrich ==
    /\ enrich_call = NoEnrichCall
    /\ enrich_ret = <<>>

enrich_metadata_parallel ==
    /\ \E repositories \in Batches :
       \E order \in CompletionOrders(Len(repositories)) :
       \E unlisted \in {{}, {"lab/mid"}} :
          /\ enrich_call' = [repositories |-> repositories, order |-> order,
                             unlisted |-> unlisted]
          /\ enrich_ret' = EnrichMetadataParallel(repositories, order, unlisted)
    /\ OutsideEnrichmentUnchanged

\* C19: parallel enrichment returns one entry per input repository, with the
\* same repository ids as often as they came in, whatever the order in which
\* the workers finish; a repository whose README cannot be fetched comes
\* back with has_readme = FALSE and the issue "Missing README.md file", and
\* one whose files cannot be listed comes back all the same.
C19_EnrichmentKeepsEveryItem ==
    /\ Len(enrich_ret) = Len(enrich_call.repositories)
    /\ \A id \in HubIds :
          Count(Ids(enrich_ret), id) = Count(Ids(enrich_call.repositories), id)
    /\ \A i \in DOMAIN enrich_ret :
          ~HubInfo(enrich_ret[i].repo_id).readme.exists =>
              /\ ~enrich_ret[i].has_readme
              /\ InList(enrich_ret[i].issues, "Missing README.md file")

\* three repositories, one without README and one whose files cannot be
\* listed, handed back in another order than they were submitted
C19_Witness ==
    /\ Len(enrich_call.repositories) = 3
    /\ Ids(enrich_ret) # Ids(enrich_call.repositories)
    /\ \E i \in DOMAIN enrich_ret : ~enrich_ret[i].has_readme
    /\ \E i \in DOMAIN enrich_ret :
          enrich_ret[i].repo_id \in enrich_call.unlisted /\ enrich_ret[i].num_files = 0

(***************************************************************************)
(* The CacheManager called directly (specification SpecCache)              *)
(***************************************************************************)
\* calls made on one CacheManager
MaxCacheCalls == 4

\* max_memory_size given to the constructor
MemorySizes == {1, 2}

TtlArgs == {TtlNone, 0, 1}

PatternArgs == {<<>>, <<"u", "s", "e", "r">>, <<"1">>}

NoCacheCall == [op |-> "none", key |-> "", ttl |-> TtlNone, pattern |-> <<>>]

\* raised names the exception a call ended in
NoCacheResult == [found |-> FALSE, value |-> 0, count |-> 0, raised |-> "none"]

InitCacheCalls ==
    /\ cache_call = NoCacheCall
    /\ cache_ret = NoCacheResult
    /\ ncache = 0
    /\ cache_log = [sets |-> EmptyDict, used |-> EmptyDict]

\* set(key, value, ttl); the value is the number of the call
cache_set ==
    /\ ncache < MaxCacheCalls
    /\ \E key \in CacheKeys : \E ttl \in TtlArgs :
          /\ SetCache(CacheSet(TheCache, key, ncache + 1, ttl, utcnow))
          /\ cache_call' = [NoCacheCall EXCEPT !.op = "set", !.key = key, !.ttl = ttl]
          /\ cache_ret' = [NoCacheResult EXCEPT !.found = TRUE]
          /\ cache_log' = [sets |-> Put(cache_log.sets, key,
                                        [ttl |-> IF ttl = TtlNone THEN default_ttl ELSE ttl,
                                         at |-> utcnow, value |-> ncache + 1]),
                           used |-> Put(cache_log.used, key, ncache + 1)]
    /\ ncache' = ncache + 1
    /\ UNCHANGED <<utcnow, nticks>>
    /\ OutsideCacheUnchanged

\* get(key)
cache_get ==
    /\ ncache < MaxCacheCalls
    /\ \E key \in CacheKeys :
          LET got == CacheGet(TheCache, key, utcnow)
          IN  /\ SetCache(got.cm)
              /\ cache_call' = [NoCacheCall EXCEPT !.op = "get", !.key = key]
              /\ cache_ret' = [NoCacheResult EXCEPT !.found = got.found,
                                  !.value = IF got.found THEN got.value ELSE 0]
              /\ cache_log' = [cache_log EXCEPT !.used =
                                  IF got.found THEN Put(@, key, ncache + 1) ELSE @]
    /\ ncache' = ncache + 1
    /\ UNCHANGED <<utcnow, nticks>>
    /\ OutsideCacheUnchanged

\* delete(key)
cache_delete ==
    /\ ncache < MaxCacheCalls
    /\ \E key \in CacheKeys :
          /\ SetCache(CacheDelete(TheCache, key))
          /\ cache_call' = [NoCacheCall EXCEPT !.op = "delete", !.key = key]
          /\ cache_log' = [cache_log EXCEPT
                              !.sets = IF key \in DOMAIN @ THEN Drop(@, key) ELSE @]
    /\ cache_ret' = [NoCacheResult EXCEPT !.found = TRUE]
    /\ ncache' = ncache + 1
    /\ UNCHANGED <<utcnow, nticks>>
    /\ OutsideCacheUnchanged

\* clear(pattern)
cache_clear ==
    /\ ncache < MaxCacheCalls
    /\ \E pattern \in PatternArgs :
          LET r == CacheClear(TheCache, pattern)
          IN  /\ SetCache(r.cm)
              /\ cache_call' = [NoCacheCall EXCEPT !.op = "clear", !.pattern = pattern]
              /\ cache_ret' = [NoCacheResult EXCEPT !.count = r.cleared]
    /\ cache_log' = [cache_log EXCEPT !.sets = EmptyDict]
    /\ ncache' = ncache + 1
    /\ UNCHANGED <<utcnow, nticks>>
    /\ OutsideCacheUnchanged

\* cleanup_expired()
cache_cleanup_expired ==
    /\ ncache < MaxCacheCalls
    /\ LET r == CleanupExpired(TheCache, utcnow)
       IN  /\ SetCache(r.cm)
           /\ cache_ret' = [NoCacheResult EXCEPT !.count = r.removed]
    /\ cache_call' = [NoCacheCall EXCEPT !.op = "cleanup_expired"]
    /\ ncache' = ncache + 1
    /\ UNCHANGED <<utcnow, nticks, cache_log>>
    /\ OutsideCacheUnchanged

\* A second passes between two calls.
wait ==
    /\ nticks < MaxTicks
    /\ utcnow' = utcnow + 1
    /\ nticks' = nticks + 1
    /\ UNCHANGED <<memory_cache, access_times, cache_files, cache_stats, cacheCallVars>>
    /\ OutsideCacheUnchanged

\* a cache call has just been made
CacheCalled == ncache' = ncache + 1

\* C14: a key set with TTL t (and neither deleted nor cleared since) is
\* returned by get, as a hit, as long as less than t seconds have passed since
\* the set; once t seconds have passed a get returns the default and counts a
\* miss, and after cleanup_expired no file of that key is left on disk.
C14_ExpiresAfterTtl ==
    [][CacheCalled =>
        /\ (cache_call'.op = "get" /\ cache_call'.key \in DOMAIN cache_log.sets) =>
              LET s == cache_log.sets[cache_call'.key]
              IN  IF utcnow - s.at < s.ttl
                  THEN /\ cache_ret'.found
                       /\ cache_ret'.value = s.value
                       /\ cache_stats'.hits = cache_stats.hits + 1
                  ELSE /\ ~cache_ret'.found
                       /\ cache_stats'.misses = cache_stats.misses + 1
        /\ cache_call'.op = "cleanup_expired" =>
              \A key \in DOMAIN cache_log.sets :
                  utcnow - cache_log.sets[key].at >= cache_log.sets[key].ttl
                      => key \notin DOMAIN cache_files']_vars

\* the key of the memory tier that was used (set, or returned by get) longest ago
LeastRecentlyUsed ==
    CHOOSE k \in DOMAIN memory_cache :
        \A x \in DOMAIN memory_cache : cache_log.used[k] <= cache_log.used[x]

\* C15: when the memory tier holds max_memory_size entries and a key that is
\* not in it is inserted, the memory tier afterwards holds the new key and the
\* old ones but one, and the one missing is the key whose last use (set or
\* get hit) lies furthest back.
C15_EvictsLeastRecentlyUsed ==
    [][(/\ CacheCalled
        /\ Cardinality(DOMAIN memory_cache) = max_memory_size
        /\ cache_call'.key \in DOMAIN memory_cache' \ DOMAIN memory_cache)
       => DOMAIN memory_cache' =
            (DOMAIN memory_cache \ {LeastRecentlyUsed}) \cup {cache_call'.key}]_vars

\* a memory tier of two is full of a key set first and a key set second, the
\* first is read, and a third key is set: the second key has left the memory
\* tier, the first is still in it
C15_Witness ==
    /\ max_memory_size = 2
    /\ cache_call.op = "set"
    /\ Cardinality(DOMAIN memory_cache) = 2
    /\ \E a, b \in DOMAIN cache_log.sets \ {cache_call.key} :
          /\ cache_log.sets[a].value < cache_log.sets[b].value
          /\ cache_log.used[a] > cache_log.used[b]
          /\ a \in DOMAIN memory_cache
          /\ b \notin DOMAIN memory_cache
          /\ b \in DOMAIN cache_files

\* get(key) at time t would be a hit on cache cm
Retrievable(cm, key, t) ==
    \/ key \in DOMAIN cm.memory_cache /\ IsValidEntry(cm.memory_cache[key], t)
    \/ key \in DOMAIN cm.cache_files /\ IsValidEntry(cm.cache_files[key], t)

\* the cache after the step
TheCacheAfter == [max_memory_size |-> max_memory_size',
                  memory_cache |-> memory_cache', access_times |-> access_times',
                  cache_files |-> cache_files', stats |-> cache_stats']

\* C16: after clear(pattern) with a substring pattern no key whose text
\* contains the pattern can be had by get, from memory or from disk; every
\* key that does not contain the pattern and could be had before can still
\* be had; and the number returned is the number of keys that were removed.
C16_ClearRemovesMatchingKeys ==
    [][(CacheCalled /\ cache_call'.op = "clear" /\ cache_call'.pattern # <<>>) =>
        LET pattern == cache_call'.pattern
            stored == DOMAIN memory_cache \cup DOMAIN cache_files
        IN  /\ \A key \in CacheKeys :
                  IF InText(pattern, KeyChars(key))
                  THEN ~Retrievable(TheCacheAfter, key, utcnow)
                  ELSE Retrievable(TheCache, key, utcnow)
                           => Retrievable(TheCacheAfter, key, utcnow)
            /\ cache_ret'.count =
                  Cardinality({key \in stored : InText(pattern, KeyChars(key))})]_vars

\* C34: under set, get, delete and cleanup_expired the two tiers behave as
\* one TTL map: get(key) returns the value of the latest set(key) when that
\* set has not been followed by a delete of the key and its TTL has not
\* elapsed, and the default otherwise, whatever the memory tier has evicted.
C34_SingleTtlMap ==
    [][(CacheCalled /\ cache_call'.op = "get") =>
          LET key == cache_call'.key
              live == /\ key \in DOMAIN cache_log.sets
                      /\ utcnow - cache_log.sets[key].at < cache_log.sets[key].ttl
          IN  IF live
              THEN cache_ret'.found /\ cache_ret'.value = cache_log.sets[key].value
              ELSE ~cache_ret'.found]_vars

\* C35: the memory tier never holds more than max_memory_size entries,
\* memory_cache and access_times have the same keys, and a set of a key that
\* is already in the memory tier evicts no other key.
C35_MemoryTierBounded ==
    [][/\ Cardinality(DOMAIN memory_cache') <= max_memory_size'
       /\ DOMAIN memory_cache' = DOMAIN access_times'
       /\ (CacheCalled /\ cache_call'.op = "set" /\ cache_call'.key \in DOMAIN memory_cache)
             => DOMAIN memory_cache \subseteq DOMAIN memory_cache']_vars

\* the first two parts of C35 alone
MemoryTierWithinBound ==
    /\ Cardinality(DOMAIN memory_cache) <= max_memory_size
    /\ DOMAIN memory_cache = DOMAIN access_times

\* CacheManager.set at time t when opening the cache file for writing fails:
\* the entry is already in memory, the file stays as it was, the handler
\* raises CacheError
CacheSetWriteFails(cm, key, value, ttl, t) ==
    LET entry == [value |-> value,
                  expiry |-> t + (IF ttl # TtlNone /\ ttl # 0 THEN ttl ELSE default_ttl),
                  created |-> t]
    IN  AddToMemoryCache(cm, key, entry)

\* set(key, value, ttl) on a cache directory that cannot be written
cache_set_write_fails ==
    /\ ncache < MaxCacheCalls
    /\ \E key \in CacheKeys : \E ttl \in TtlArgs :
          /\ SetCache(CacheSetWriteFails(TheCache, key, ncache + 1, ttl, utcnow))
          /\ cache_call' = [NoCacheCall EXCEPT !.op = "set", !.key = key, !.ttl = ttl]
    /\ cache_ret' = [NoCacheResult EXCEPT !.raised = "CacheError"]
    /\ ncache' = ncache + 1
    /\ UNCHANGED <<utcnow, nticks, cache_log>>
    /\ OutsideCacheUnchanged

\* C37: when the disk write of set(key, value) fails, set raises CacheError
\* and the cache is as it was before the call: memory, access times, files
\* and counters (the sets counter among them) are unchanged, and a get that
\* finds a key returns the value of the last set of the key that succeeded,
\* never the value of a set that failed.
C37_FailedSetLeavesCacheUnchanged ==
    [][/\ (CacheCalled /\ cache_call'.op = "set" /\ cache_ret'.raised # "none")
           => /\ cache_ret'.raised = "CacheError"
              /\ TheCacheAfter = TheCache
       /\ (CacheCalled /\ cache_call'.op = "get" /\ cache_ret'.found)
           => /\ cache_call'.key \in DOMAIN cache_log.sets
              /\ cache_ret'.value = cache_log.sets[cache_call'.key].value]_vars

\* the parts of C37 the handler keeps: a failed set raises CacheError and
\* leaves the sets counter and the files as they were
FailedSetRaisesAndIsNotCounted ==
    [][(CacheCalled /\ cache_call'.op = "set" /\ cache_ret'.raised # "none")
           => /\ cache_ret'.raised = "CacheError"
              /\ cache_stats'.sets = cache_stats.sets
              /\ cache_files' = cache_files]_vars

(***************************************************************************)
(* The Insight Portal clients (specification SpecPortal)                   *)
(*                                                                         *)
(* An object is the record of client (TRUE once Client(API_ENDPOINT) has   *)
(* succeeded) and session ("none" before __aenter__, "open", "closed"      *)
(* after __aexit__).  What the portal does to one call is the pair of rpc  *)
(* (client.predict returns, returns text that is not JSON, or raises) and  *)
(* http (the GET raises, or answers with a status).  A method is an        *)
(* operator that yields [raised, ...]: raised is TRUE when an exception    *)
(* leaves the method.                                                      *)
(***************************************************************************)
\* calls made on the two portal objects
MaxPortalCalls == 3

PortalObjects == {"PortalStatusManager", "HuggingSciencePortal"}

RpcOutcomes == {"returns", "not_json", "raises"}

HttpOutcomes == {"status_200", "status_404", "status_503", "raises"}

\* answers of the portal to a status check
StatusAnswers ==
    {[available |-> FALSE, current_worker |-> "alice", status |-> "in_progress"],
     [available |-> TRUE, current_worker |-> "", status |-> "available"]}

\* answers of the portal to a search: dataset ids, the second one with an
\* "updated" field that datetime.fromisoformat rejects
DatasetAnswers == {<<>>, <<"lab/popular">>, <<"lab/popular", "lab/stale">>}

\* the session.get of the HTTP fallbacks: "raises", or the status answered
SessionGet(obj, http) == IF obj.session = "closed" THEN "raises" ELSE http

\* _http_check_status
HttpCheckStatus(obj, http, answer) ==
    IF obj.session = "none"
    THEN [raised |-> FALSE,
          result |-> [available |-> TRUE, current_worker |-> "", status |-> ""]]
    ELSE IF SessionGet(obj, http) = "raises"
    THEN [raised |-> TRUE, result |-> answer]
    ELSE IF SessionGet(obj, http) = "status_200"
    THEN [raised |-> FALSE, result |-> answer]
    ELSE [raised |-> FALSE,
          result |-> [available |-> TRUE, current_worker |-> "", status |-> ""]]

\* check_availability with the exception of its body leaving the method
CheckAvailabilityRaising(obj, rpc, http, answer) ==
    LET body == IF obj.client
                THEN [raised |-> rpc = "raises", result |-> answer]
                ELSE HttpCheckStatus(obj, http, answer)
    IN  IF body.raised
        THEN [raised |-> TRUE,
              result |-> [available |-> FALSE, current_worker |-> "", status |-> ""]]
        ELSE body

\* PortalStatusManager.check_availability; client.predict hands back what
\* the portal sent, parsed or not
CheckAvailability(obj, rpc, http, answer) ==
    LET body == IF obj.client
                THEN [raised |-> rpc = "raises", result |-> answer]
                ELSE HttpCheckStatus(obj, http, answer)
    IN  IF body.raised
        THEN [raised |-> FALSE,
              result |-> [available |-> TRUE, current_worker |-> "", status |-> "unknown"]]
        ELSE body

\* _http_search, _http_get_trending, _http_get_community_insights: the list
\* (or the keys of the dict) that comes back
HttpGetList(obj, http, answer) ==
    IF obj.session = "none" THEN [raised |-> TRUE, items |-> <<>>]
    ELSE IF SessionGet(obj, http) = "raises" THEN [raised |-> TRUE, items |-> <<>>]
    ELSE IF SessionGet(obj, http) = "status_200" THEN [raised |-> FALSE, items |-> answer]
    ELSE [raised |-> FALSE, items |-> <<>>]

\* the body of the three methods up to the parsed portal answer
PortalFetch(obj, rpc, http, answer) ==
    IF obj.client
    THEN [raised |-> rpc # "returns", items |-> IF rpc = "returns" THEN answer ELSE <<>>]
    ELSE HttpGetList(obj, http, answer)

\* _parse_dataset_insight: None for a dataset it cannot parse
ParsesInsight(dataset) == dataset # "lab/stale"

\* HuggingSciencePortal.search_science_datasets
SearchScienceDatasets(obj, rpc, http, answer) ==
    LET datasets == PortalFetch(obj, rpc, http, answer)
    IN  [raised |-> FALSE,
         items |-> IF datasets.raised THEN <<>>
                   ELSE SelectSeq(datasets.items, ParsesInsight)]

\* HuggingSciencePortal.get_trending_science_datasets and
\* get_community_insights (the keys of the dict it returns)
GetOrEmpty(obj, rpc, http, answer) ==
    LET got == PortalFetch(obj, rpc, http, answer)
    IN  [raised |-> FALSE, items |-> IF got.raised THEN <<>> ELSE got.items]

NoPortalCall == [op |-> "none", object |-> "", client |-> FALSE, session |-> "none",
                 rpc |-> "raises", http |-> "raises"]

NoPortalResult == [raised |-> FALSE, available |-> FALSE, status |-> "", items |-> <<>>]

InitPortal ==
    /\ portals = [o \in PortalObjects |-> [client |-> FALSE, session |-> "none"]]
    /\ portal_call = NoPortalCall
    /\ portal_ret = NoPortalResult
    /\ nportal = 0

\* the call record of method op on object o
PortalCall(op, o, rpc, http) ==
    [op |-> op, object |-> o, client |-> portals[o].client,
     session |-> portals[o].session, rpc |-> rpc, http |-> http]

\* __aenter__ of either class: the session is made, the client if the
\* portal can be reached
aenter ==
    /\ nportal < MaxPortalCalls
    /\ \E o \in PortalObjects : \E rpc \in {"returns", "raises"} :
          /\ portals' = [portals EXCEPT ![o] =
                            [client |-> IF rpc = "returns" THEN TRUE ELSE @.client,
                             session |-> "open"]]
          /\ portal_call' = PortalCall("__aenter__", o, rpc, "raises")
    /\ portal_ret' = NoPortalResult
    /\ nportal' = nportal + 1
    /\ OutsidePortalUnchanged

\* __aexit__ of either class
aexit ==
    /\ nportal < MaxPortalCalls
    /\ \E o \in PortalObjects :
          /\ portals[o].session # "none"
          /\ portals' = [portals EXCEPT ![o].session = "closed"]
          /\ portal_call' = PortalCall("__aexit__", o, "raises", "raises")
    /\ portal_ret' = NoPortalResult
    /\ nportal' = nportal + 1
    /\ OutsidePortalUnchanged

check_availability ==
    /\ nportal < MaxPortalCalls
    /\ \E rpc \in RpcOutcomes \ {"not_json"} : \E http \in HttpOutcomes :
       \E answer \in StatusAnswers :
          LET r == CheckAvailability(portals["PortalStatusManager"], rpc, http, answer)
          IN  /\ portal_call' = PortalCall("check_availability", "PortalStatusManager",
                                           rpc, http)
              /\ portal_ret' = [NoPortalResult EXCEPT !.raised = r.raised,
                                   !.available = r.result.available,
                                   !.status = r.result.status]
    /\ nportal' = nportal + 1
    /\ UNCHANGED portals
    /\ OutsidePortalUnchanged

search_science_datasets ==
    /\ nportal < MaxPortalCalls
    /\ \E rpc \in RpcOutcomes : \E http \in HttpOutcomes : \E answer \in DatasetAnswers :
          LET r == SearchScienceDatasets(portals["HuggingSciencePortal"], rpc, http, answer)
          IN  /\ portal_call' = PortalCall("search_science_datasets",
                                           "HuggingSciencePortal", rpc, http)
              /\ portal_ret' = [NoPortalResult EXCEPT !.raised = r.raised,
                                                      !.items = r.items]
    /\ nportal' = nportal + 1
    /\ UNCHANGED portals
    /\ OutsidePortalUnchanged

get_trending_science_datasets ==
    /\ nportal < MaxPortalCalls
    /\ \E rpc \in RpcOutcomes : \E http \in HttpOutcomes : \E answer \in DatasetAnswers :
          LET r == GetOrEmpty(portals["HuggingSciencePortal"], rpc, http, answer)
          IN  /\ portal_call' = PortalCall("get_trending_science_datasets",
                                           "HuggingSciencePortal", rpc, http)
              /\ portal_ret' = [NoPortalResult EXCEPT !.raised = r.raised,
                                                      !.items = r.items]
    /\ nportal' = nportal + 1
    /\ UNCHANGED portals
    /\ OutsidePortalUnchanged

get_community_insights ==
    /\ nportal < MaxPortalCalls
    /\ \E rpc \in RpcOutcomes : \E http \in HttpOutcomes :
       \E answer \in {<<>>, <<"downloads", "forks">>} :
          LET r == GetOrEmpty(portals["HuggingSciencePortal"], rpc, http, answer)
          IN  /\ portal_call' = PortalCall("get_community_insights",
                                           "HuggingSciencePortal", rpc, http)
              /\ portal_ret' = [NoPortalResult EXCEPT !.raised = r.raised,
                                                      !.items = r.items]
    /\ nportal' = nportal + 1
    /\ UNCHANGED portals
    /\ OutsidePortalUnchanged

\* the portal could be reached neither by client.predict nor over HTTP
PortalUnreachable ==
    /\ portal_call.rpc = "raises"
    /\ portal_call.http \in {"raises", "status_404", "status_503"}

\* C20: when the portal cannot be reached on the RPC path nor on the HTTP
\* path (no client was ever connected, the call raises, or the answer is not
\* a 200), check_availability returns a result whose available is TRUE, and
\* search_science_datasets, get_trending_science_datasets and
\* get_community_insights return an empty collection; no exception leaves
\* any of the four.
C20_UnreachablePortalDegrades ==
    PortalUnreachable =>
        /\ ~portal_ret.raised
        /\ portal_call.op = "check_availability" => portal_ret.available
        /\ portal_call.op \in {"search_science_datasets",
                                "get_trending_science_datasets",
                                "get_community_insights"}
              => portal_ret.items = <<>>

\* a status check through a client that was connected earlier and whose
\* call now raises, answered with the assumed status
C20_Witness ==
    /\ PortalUnreachable
    /\ portal_call.op = "check_availability"
    /\ portal_call.client
    /\ portal_ret.available
    /\ portal_ret.status = "unknown"

(***************************************************************************)
(* CollaborativeWorkflow.find_and_claim_dataset (specification SpecClaim)  *)
(*                                                                         *)
(* One call, a step per await of the loop: the entry (manager, search,     *)
(* filter), the availability check of the candidate at claim_i, the claim  *)
(* of a candidate found available, and the return of None.                 *)
(***************************************************************************)
\* longest list the bulk search returns
MaxCandidates == 2

\* the candidates the portal knows, with their tags
PortalDatasets ==
    {[id |-> "lab/raw", tags |-> {"biology"}],
     [id |-> "lab/mid", tags |-> {"chemistry"}],
     [id |-> "lab/new", tags |-> {}]}

\* answers of the portal to search_minimal_datasets
CandidateLists ==
    UNION {{f \in [1..n -> PortalDatasets] : \A i, j \in 1..n : i # j => f[i] # f[j]}
           : n \in 0..MaxCandidates}

PreferredDomainArgs == {<<>>, <<"biology">>, <<"physics">>}

\* search_minimal_datasets with _http_search_minimal
SearchMinimalDatasets(obj, rpc, http, answer) ==
    IF obj.client
    THEN IF rpc = "returns" THEN answer ELSE <<>>
    ELSE IF obj.session # "none" /\ SessionGet(obj, http) = "status_200"
         THEN answer ELSE <<>>

\* the candidates left by the preferred-domain filter alone
FilterByDomainsOnly(datasets, preferred_domains) ==
    SelectSeq(datasets, LAMBDA d : \E k \in DOMAIN preferred_domains :
                                      preferred_domains[k] \in d.tags)

\* the preferred-domain filter of find_and_claim_dataset
FilterByDomains(datasets, preferred_domains) ==
    LET filtered == SelectSeq(datasets, LAMBDA d : \E k \in DOMAIN preferred_domains :
                                                      preferred_domains[k] \in d.tags)
    IN  IF preferred_domains # <<>> /\ filtered # <<>> THEN filtered ELSE datasets

\* the loop goes on to the claim whatever the check said
ProceedsAlways(status_info) == TRUE

\* `if status_info.get("available")`
ProceedsToClaim(status_info) == status_info.available

\* _http_update_status
HttpUpdateStatus(obj, http) ==
    IF obj.session = "none" THEN [raised |-> FALSE, success |-> FALSE]
    ELSE IF SessionGet(obj, http) = "raises" THEN [raised |-> TRUE, success |-> FALSE]
    ELSE [raised |-> FALSE, success |-> SessionGet(obj, http) = "status_200"]

\* PortalStatusManager.claim_dataset; accepted is the "success" of the answer
ClaimDataset(obj, rpc, http, accepted) ==
    LET body == IF obj.client
                THEN [raised |-> rpc = "raises", success |-> accepted]
                ELSE HttpUpdateStatus(obj, http)
    IN  IF body.raised THEN FALSE ELSE body.success

\* PortalStatusManager.get_dataset_metadata with _http_get_metadata: the
\* category of the metadata, "" for the empty dict
GetDatasetMetadata(obj, rpc, http) ==
    IF obj.client
    THEN IF rpc = "returns" THEN "minimal" ELSE ""
    ELSE IF obj.session # "none" /\ SessionGet(obj, http) = "status_200"
         THEN "minimal" ELSE ""

NoClaimArgs == [preferred_domains |-> <<>>, found |-> <<>>]

NoClaimResult == [status |-> "none", dataset_id |-> "", metadata |-> ""]

InitClaim ==
    /\ claim_pc = "idle"
    /\ claim_args = NoClaimArgs
    /\ claim_manager = [client |-> FALSE, session |-> "none"]
    /\ claim_datasets = <<>>
    /\ claim_i = 1
    /\ claim_log = <<>>
    /\ claim_ret = NoClaimResult

\* entry: the manager is entered, the bulk search made, the filter applied
find_and_claim_dataset ==
    /\ claim_pc = "idle"
    /\ \E preferred_domains \in PreferredDomainArgs : \E connects \in BOOLEAN :
       \E rpc \in {"returns", "raises"} : \E http \in HttpOutcomes :
       \E answer \in CandidateLists :
          LET manager == [client |-> connects, session |-> "open"]
              datasets == SearchMinimalDatasets(manager, rpc, http, answer)
          IN  /\ claim_manager' = manager
              /\ claim_args' = [preferred_domains |-> preferred_domains,
                                found |-> datasets]
              /\ claim_datasets' = FilterByDomains(datasets, preferred_domains)
    /\ claim_pc' = "check"
    /\ UNCHANGED <<claim_i, claim_log, claim_ret>>
    /\ OutsideClaimUnchanged

\* the loop at a candidate: check_availability, then on to the claim or to
\* the next candidate
check_candidate ==
    /\ claim_pc = "check"
    /\ claim_i <= Len(claim_datasets)
    /\ \E rpc \in {"returns", "raises"} : \E http \in HttpOutcomes :
       \E answer \in StatusAnswers :
          LET dataset_id == claim_datasets[claim_i].id
              status_info == CheckAvailability(claim_manager, rpc, http, answer).result
          IN  /\ claim_log' = Append(claim_log, [op |-> "check_availability",
                                                 dataset_id |-> dataset_id,
                                                 result |-> status_info.available])
              /\ IF ProceedsToClaim(status_info)
                 THEN claim_pc' = "claim" /\ claim_i' = claim_i
                 ELSE claim_pc' = "check" /\ claim_i' = claim_i + 1
    /\ UNCHANGED <<claim_args, claim_manager, claim_datasets, claim_ret>>
    /\ OutsideClaimUnchanged

\* get_dataset_metadata and claim_dataset for the candidate, then the
\* return of the claimed dataset or the next candidate
claim_candidate ==
    /\ claim_pc = "claim"
    /\ \E rpc \in {"returns", "raises"} : \E http \in HttpOutcomes :
       \E accepted \in BOOLEAN :
          LET dataset_id == claim_datasets[claim_i].id
              metadata == GetDatasetMetadata(claim_manager, rpc, http)
              success == ClaimDataset(claim_manager, rpc, http, accepted)
          IN  /\ claim_log' = Append(claim_log, [op |-> "claim_dataset",
                                                 dataset_id |-> dataset_id,
                                                 result |-> success])
              /\ IF success
                 THEN /\ claim_ret' = [status |-> "claimed", dataset_id |-> dataset_id,
                                       metadata |-> metadata]
                      /\ claim_pc' = "done"
                      /\ claim_i' = claim_i
                 ELSE /\ claim_ret' = claim_ret
                      /\ claim_pc' = "check"
                      /\ claim_i' = claim_i + 1
    /\ UNCHANGED <<claim_args, claim_manager, claim_datasets>>
    /\ OutsideClaimUnchanged

\* the loop is over: None is returned
return_none ==
    /\ claim_pc = "check"
    /\ claim_i > Len(claim_datasets)
    /\ claim_ret' = [NoClaimResult EXCEPT !.status = "absent"]
    /\ claim_pc' = "done"
    /\ UNCHANGED <<claim_args, claim_manager, claim_datasets, claim_i, claim_log>>
    /\ OutsideClaimUnchanged

\* C21: claim_dataset is called for a candidate only right after a
\* check_availability for the same candidate that said available; a check that
\* said unavailable is followed, if by anything, by the check of the next
\* candidate of the list.
C21_ClaimOnlyAfterAvailableCheck ==
    \A n \in DOMAIN claim_log :
        /\ claim_log[n].op = "claim_dataset" =>
              /\ n > 1
              /\ claim_log[n - 1].op = "check_availability"
              /\ claim_log[n - 1].dataset_id = claim_log[n].dataset_id
              /\ claim_log[n - 1].result
        /\ (/\ claim_log[n].op = "check_availability"
            /\ ~claim_log[n].result
            /\ n < Len(claim_log)) =>
              /\ claim_log[n + 1].op = "check_availability"
              /\ \E i \in 1..(Len(claim_datasets) - 1) :
                    /\ claim_datasets[i].id = claim_log[n].dataset_id
                    /\ claim_datasets[i + 1].id = claim_log[n + 1].dataset_id

\* the first candidate was found unavailable and skipped, the second was
\* found available and claimed
C21_Witness ==
    /\ Len(claim_log) = 3
    /\ claim_log[1].op = "check_availability" /\ ~claim_log[1].result
    /\ claim_log[2].op = "check_availability" /\ claim_log[2].result
    /\ claim_log[3].op = "claim_dataset"
    /\ claim_log[1].dataset_id # claim_log[3].dataset_id

\* the candidates the loop has to go through, from the arguments of the call
Candidates ==
    LET matching == SelectSeq(claim_args.found,
                              LAMBDA d : \E k \in DOMAIN claim_args.preferred_domains :
                                            claim_args.preferred_domains[k] \in d.tags)
    IN  IF matching # <<>> THEN matching ELSE claim_args.found

\* the positions of the log with a claim that succeeded
Successes == {n \in DOMAIN claim_log : claim_log[n].op = "claim_dataset" /\ claim_log[n].result}

\* the ids checked, in the order of the checks
Checked ==
    LET checks == SelectSeq(claim_log, LAMBDA e : e.op = "check_availability")
    IN  [n \in DOMAIN checks |-> checks[n].dataset_id]

\* C22: the candidates are tried in the order of the search (of the
\* candidates with a preferred domain when there is one, of all of them
\* otherwise); at most one claim succeeds, it is the last call made, and its
\* candidate is the one returned; None is returned only when every candidate
\* was tried and none was both available and claimed.
C22_FirstSuccessfulClaimReturned ==
    /\ Cardinality(Successes) <= 1
    /\ Successes \subseteq {Len(claim_log)}
    /\ Len(Checked) <= Len(Candidates)
    /\ \A n \in DOMAIN Checked : Checked[n] = Candidates[n].id
    /\ claim_pc = "done" =>
          /\ claim_ret.status = "claimed" <=> Successes # {}
          /\ claim_ret.status = "claimed" =>
                claim_ret.dataset_id = claim_log[Len(claim_log)].dataset_id
          /\ claim_ret.status = "absent" <=> Successes = {}
          /\ claim_ret.status = "absent" => Len(Checked) = Len(Candidates)

\* the filter matched nothing, the first of all candidates was available but
\* its claim failed, and the second was claimed and returned
C22_Witness ==
    /\ claim_pc = "done"
    /\ claim_ret.status = "claimed"
    /\ claim_args.preferred_domains = <<"physics">>
    /\ Len(claim_args.found) = 2
    /\ claim_ret.dataset_id = claim_args.found[2].id
    /\ \E n \in DOMAIN claim_log :
          claim_log[n].op = "claim_dataset" /\ ~claim_log[n].result

(***************************************************************************)
(* EnhancedDiscoveryWithPortal.discover_with_insights (specification       *)
(* SpecInsights)                                                           *)
(***************************************************************************)
\* longest list either source returns
MaxInsights == 2

InsightIds == {"lab/popular", "lab/mid", "lab/raw"}

\* a PortalDatasetInsight of the portal; improvement_priority in ScoreUnit-ths
PortalInsight(id) ==
    [repo_id |-> id,
     documentation_score |-> 0,
     improvement_priority |-> ScoreUnit * (CASE id = "lab/popular" -> 20
                                             [] id = "lab/mid" -> 55
                                             [] OTHER -> 90)]

\* what search_science_datasets can return: the portal may list an id twice
PortalInsightLists ==
    UNION {{[i \in 1..n |-> PortalInsight(ids[i])] : ids \in [1..n -> InsightIds]}
           : n \in 0..MaxInsights}

\* what discover_repositories can return: enriched and scored, no id twice
OurDatasetLists ==
    UNION {{[i \in 1..n |->
               calculate_priority_score(EnrichSingle(ConvertToMetadata(HubInfo(ids[i])), TRUE))]
            : ids \in {f \in [1..n -> InsightIds] : \A i, j \in 1..n : i # j => f[i] # f[j]}}
           : n \in 0..MaxInsights}

RECURSIVE AddPortalInsights(_, _, _)
\* the loop over portal_insights: results after it
AddPortalInsights(portal_insights, trending, results) ==
    IF portal_insights = <<>> THEN results
    ELSE LET insight == Head(portal_insights)
             seen_ids == {results[i].repo_id : i \in DOMAIN results}
         IN  AddPortalInsights(Tail(portal_insights), trending,
                 IF insight.repo_id \notin seen_ids
                 THEN Append(results,
                             [repo_id |-> insight.repo_id,
                              source |-> "portal",
                              documentation_score |-> insight.documentation_score,
                              improvement_priority |-> insight.improvement_priority,
                              is_trending |-> insight.repo_id \in trending])
                 ELSE results)

RECURSIVE AddOurDatasets(_, _)
\* the loop over our_datasets: results after it
AddOurDatasets(our_datasets, results) ==
    IF our_datasets = <<>> THEN results
    ELSE LET dataset == Head(our_datasets)
             seen_ids == {results[i].repo_id : i \in DOMAIN results}
         IN  AddOurDatasets(Tail(our_datasets),
                 IF dataset.repo_id \notin seen_ids
                 THEN Append(results,
                             [repo_id |-> dataset.repo_id,
                              source |-> "traditional",
                              documentation_score |-> dataset.readme_quality_score,
                              improvement_priority |-> dataset.priority_score,
                              has_readme |-> dataset.has_readme,
                              readme_length |-> dataset.readme_length])
                 ELSE results)

\* results.sort(key=improvement_priority, reverse=True): stable
SortByPriority(results) ==
    LET n == Len(results)
        Pos(i) == 1 + Cardinality({j \in 1..n :
                       \/ results[j].improvement_priority > results[i].improvement_priority
                       \/ /\ results[j].improvement_priority = results[i].improvement_priority
                          /\ j < i})
    IN  [k \in 1..n |-> results[CHOOSE i \in 1..n : Pos(i) = k]]

\* discover_with_insights, from what the two sources returned
DiscoverWithInsights(limit, portal_insights, trending, our_datasets) ==
    LET merged == AddOurDatasets(our_datasets,
                                 AddPortalInsights(portal_insights, trending, <<>>))
        sorted == SortByPriority(merged)
    IN  SubSeq(sorted, 1, Min(limit, Len(sorted)))

NoInsightsCall == [limit |-> 0, portal_insights |-> <<>>, trending |-> {},
                   our_datasets |-> <<>>]

InitInsights ==
    /\ insights_call = NoInsightsCall
    /\ insights_ret = <<>>

discover_with_insights ==
    /\ insights_call = NoInsightsCall
    /\ \E limit \in {2 * MaxInsights} :
       \E portal_insights \in PortalInsightLists :
       \E trending \in SUBSET InsightIds :
       \E our_datasets \in OurDatasetLists :
          /\ insights_call' = [limit |-> limit, portal_insights |-> portal_insights,
                               trending |-> trending, our_datasets |-> our_datasets]
          /\ insights_ret' = DiscoverWithInsights(limit, portal_insights, trending,
                                                  our_datasets)
    /\ OutsideInsightsUnchanged

\* the entry says it is trending: it has the key and the key is true
MarkedTrending(entry) == "is_trending" \in DOMAIN entry /\ entry.is_trending

\* C23: in the list returned, every entry whose id is in the trending set is
\* marked is_trending, whichever source it came from; no id is there twice;
\* an id that both sources found is reported with source "portal".
C23_TrendingMarkedAndDeduplicated ==
    /\ \A n \in DOMAIN insights_ret :
          insights_ret[n].repo_id \in insights_call.trending
              => MarkedTrending(insights_ret[n])
    /\ \A n, m \in DOMAIN insights_ret :
          n # m => insights_ret[n].repo_id # insights_ret[m].repo_id
    /\ \A n \in DOMAIN insights_ret :
          insights_ret[n].repo_id \in Range(Ids(insights_call.portal_insights))
              => insights_ret[n].source = "portal"

(***************************************************************************)
(* get_settings / reset_settings (specification SpecSettings)              *)
(*                                                                         *)
(* Threads call get_settings; a step is what runs between two reads or     *)
(* writes of the global _settings: the test `_settings is None`, the       *)
(* construction and assignment, `_settings.create_directories()`, and      *)
(* `return _settings`.                                                     *)
(***************************************************************************)
\* get_settings and reset_settings calls begun
MaxSettingsCalls == 3

Threads == {"MainThread", "Thread-1"}

DirAttrs == {"config_dir", "templates_dir", "cache_dir", "logs_dir", "output_dir"}

\* the directory attributes the environment can provide
GivenDirs == {{}, {"cache_dir"}}

\* _set_directories: an attribute that was not provided gets its default
SetDirectories(given) == [attr \in DirAttrs |-> IF attr \in given THEN "given" ELSE "default"]

\* create_directories: the directories on disk after it
CreateDirectories(obj, disk) ==
    disk \cup {attr \in {"cache_dir", "logs_dir", "output_dir"} : obj[attr] # "None"}

InitSettings ==
    /\ settings = 0
    /\ settings_objects = <<>>
    /\ disk_dirs = {}
    /\ settings_pc = [t \in Threads |-> "idle"]
    /\ settings_start = [t \in Threads |-> 0]
    /\ settings_returns = {}
    /\ resets = 0
    /\ nsettings = 0

\* get_settings begins: `if _settings is None`
get_settings_test(t) ==
    /\ settings_pc[t] = "idle"
    /\ nsettings < MaxSettingsCalls
    /\ nsettings' = nsettings + 1
    /\ settings_start' = [settings_start EXCEPT ![t] = resets]
    /\ settings_pc' = [settings_pc EXCEPT ![t] = IF settings = 0 THEN "build" ELSE "return"]
    /\ UNCHANGED <<settings, settings_objects, disk_dirs, settings_returns, resets>>
    /\ OutsideSettingsUnchanged

\* `_settings = Settings()`
get_settings_build(t) ==
    /\ settings_pc[t] = "build"
    /\ \E given \in GivenDirs :
          settings_objects' = Append(settings_objects, SetDirectories(given))
    /\ settings' = Len(settings_objects) + 1
    /\ settings_pc' = [settings_pc EXCEPT ![t] = "create_directories"]
    /\ UNCHANGED <<disk_dirs, settings_start, settings_returns, resets, nsettings>>
    /\ OutsideSettingsUnchanged

\* `_settings.create_directories()`: AttributeError ends the call when a
\* reset has put None back
get_settings_create_directories(t) ==
    /\ settings_pc[t] = "create_directories"
    /\ IF settings = 0
       THEN /\ settings_pc' = [settings_pc EXCEPT ![t] = "idle"]
            /\ UNCHANGED disk_dirs
       ELSE /\ settings_pc' = [settings_pc EXCEPT ![t] = "return"]
            /\ disk_dirs' = CreateDirectories(settings_objects[settings], disk_dirs)
    /\ UNCHANGED <<settings, settings_objects, settings_start, settings_returns,
                   resets, nsettings>>
    /\ OutsideSettingsUnchanged

\* `return _settings`
get_settings_return(t) ==
    /\ settings_pc[t] = "return"
    /\ settings_returns' = settings_returns \cup
          {[thread |-> t, start |-> settings_start[t], end |-> resets,
            instance |-> settings]}
    /\ settings_pc' = [settings_pc EXCEPT ![t] = "idle"]
    /\ UNCHANGED <<settings, settings_objects, disk_dirs, settings_start, resets,
                   nsettings>>
    /\ OutsideSettingsUnchanged

\* reset_settings, by a thread that is not inside get_settings
reset_settings(t) ==
    /\ settings_pc[t] = "idle"
    /\ nsettings < MaxSettingsCalls
    /\ nsettings' = nsettings + 1
    /\ settings' = 0
    /\ resets' = resets + 1
    /\ UNCHANGED <<settings_objects, disk_dirs, settings_pc, settings_start,
                   settings_returns>>
    /\ OutsideSettingsUnchanged

\* the calls that began and returned with no reset in between
Settled == {r \in settings_returns : r.start = r.end}

\* C24: two get_settings calls made between the same two reset_settings
\* calls return the same instance, also when they race on the first access;
\* a call made after a reset returns another instance than a call that
\* returned before it.
C24_OneInstanceBetweenResets ==
    /\ \A r1, r2 \in Settled : r1.start = r2.start => r1.instance = r2.instance
    /\ \A r1, r2 \in Settled : r1.end < r2.start => r1.instance # r2.instance

\* C25: once a get_settings call has returned, the five managed directories
\* (config, templates, cache, logs, output) exist on disk, and no directory
\* attribute of the instance it returned is None.
C25_DirectoriesExist ==
    \A r \in Settled :
        /\ DirAttrs \subseteq disk_dirs
        /\ r.instance # 0
        /\ \A attr \in DirAttrs : settings_objects[r.instance][attr] # "None"

(***************************************************************************)
(* BaselineAnalyzer: _load_baselines and compare_with_baselines            *)
(* (specification SpecBaseline)                                            *)
(*                                                                         *)
(* An analysis is the record of quality_score, sections (their names),     *)
(* total_length, strengths and has_code_examples of a card.                *)
(***************************************************************************)
GOLD_STANDARD_REPOS == <<"tahoebio/Tahoe-100M", "bigscience/bloom", "allenai/olmo">>

POOR_EXAMPLE_REPOS == <<"arcinstitute/opengenome2">>

ESSENTIAL_SECTIONS ==
    {"description", "dataset_structure", "usage", "data_sources", "license",
     "citation", "limitations"}

\* analyze_card of a reference repository whose README can be fetched
ReferenceAnalysis(repo_id) ==
    CASE repo_id = "tahoebio/Tahoe-100M" ->
           [quality_score |-> 95, total_length |-> 8000, has_code_examples |-> TRUE,
            sections |-> <<"description", "usage", "license", "citation", "limitations">>,
            strengths |-> {"Includes code examples", "Has citation"}]
      [] repo_id = "bigscience/bloom" ->
           [quality_score |-> 85, total_length |-> 6000, has_code_examples |-> TRUE,
            sections |-> <<"description", "usage", "license", "contact">>,
            strengths |-> {"Includes code examples"}]
      [] repo_id = "allenai/olmo" ->
           [quality_score |-> 75, total_length |-> 4000, has_code_examples |-> FALSE,
            sections |-> <<"description", "license", "evaluation">>,
            strengths |-> {"Has citation"}]
      [] OTHER ->
           [quality_score |-> 10, total_length |-> 150, has_code_examples |-> FALSE,
            sections |-> <<>>, strengths |-> {}]

\* analyze_card of the targets, whose README can be fetched
TargetAnalyses ==
    {[quality_score |-> q, total_length |-> 300 * (1 + Len(secs)),
      has_code_examples |-> code, sections |-> secs,
      strengths |-> IF code THEN {"Includes code examples"} ELSE {}]
     : q \in {10, 80}, code \in BOOLEAN,
       secs \in {<<>>, <<"description", "usage">>,
                 <<"description", "usage", "license", "citation", "limitations">>}}

Abs(x) == IF x < 0 THEN -x ELSE x

\* the loop of _load_baselines over repos: failed holds the repositories
\* for which analyze_card raises
LoadBaselines(repos, failed) ==
    [repo_id \in Range(repos) \ failed |-> ReferenceAnalysis(repo_id)]

\* the comparison with the gold standards that are loaded
GoldComparison(target, gold) ==
    [gold_id \in DOMAIN gold |->
        [quality_gap |-> gold[gold_id].quality_score - target.quality_score,
         missing_sections |-> SelectSeq(gold[gold_id].sections,
                                        LAMBDA s : s \notin Range(target.sections)),
         length_difference |-> gold[gold_id].total_length - target.total_length]]

\* the comparison with the poor examples that are loaded
PoorComparison(target, poor) ==
    [poor_id \in DOMAIN poor |->
        [quality_difference |-> target.quality_score - poor[poor_id].quality_score,
         improvements |-> target.strengths \ poor[poor_id].strengths]]

\* min(gold_comparison.items(), key=abs(quality_gap)): the first of the
\* smallest, in the order the gold standards were loaded
BestGold(gold_comparison) ==
    LET loaded == SelectSeq(GOLD_STANDARD_REPOS, LAMBDA g : g \in DOMAIN gold_comparison)
        least == CHOOSE i \in DOMAIN loaded :
                    /\ \A j \in DOMAIN loaded :
                          Abs(gold_comparison[loaded[i]].quality_gap)
                              <= Abs(gold_comparison[loaded[j]].quality_gap)
                    /\ \A j \in 1..(i - 1) :
                          Abs(gold_comparison[loaded[j]].quality_gap)
                              > Abs(gold_comparison[loaded[i]].quality_gap)
    IN  loaded[least]

\* _generate_recommendations: min() of no gold standard raises ValueError
GenerateRecommendations(target, gold_comparison) ==
    IF DOMAIN gold_comparison = {}
    THEN [raised |-> TRUE, recommendations |-> <<>>]
    ELSE LET best_gold == BestGold(gold_comparison)
             missing == SelectSeq(gold_comparison[best_gold].missing_sections,
                                  LAMBDA s : s \in ESSENTIAL_SECTIONS)
         IN  [raised |-> FALSE,
              recommendations |->
                 [i \in DOMAIN missing |->
                     [priority |-> "HIGH", action |-> "Add " \o missing[i] \o " section",
                      reference |-> best_gold]]
                 \o (IF target.total_length < 1000
                     THEN <<[priority |-> "MEDIUM",
                             action |-> "Expand documentation significantly",
                             reference |-> "tahoebio/Tahoe-100M"]>>
                     ELSE <<>>)
                 \o (IF ~target.has_code_examples
                     THEN <<[priority |-> "HIGH",
                             action |-> "Add code examples for data loading and usage",
                             reference |-> "tahoebio/Tahoe-100M"]>>
                     ELSE <<>>)]

\* compare_with_baselines on a target whose card was fetched
CompareWithBaselines(target, gold, poor) ==
    LET gold_comparison == GoldComparison(target, gold)
        poor_comparison == PoorComparison(target, poor)
        generated == GenerateRecommendations(target, gold_comparison)
    IN  IF generated.raised
        THEN [raised |-> TRUE, gold |-> {}, poor |-> {}, recommendations |-> <<>>]
        ELSE [raised |-> FALSE, gold |-> DOMAIN gold_comparison,
              poor |-> DOMAIN poor_comparison,
              recommendations |-> generated.recommendations]

NoBaselineCall == [op |-> "none", failed |-> {}, target |-> ReferenceAnalysis("")]

NoBaselineResult == [raised |-> FALSE, gold |-> {}, poor |-> {}, recommendations |-> <<>>]

InitBaseline ==
    /\ gold_standards = EmptyDict
    /\ poor_examples = EmptyDict
    /\ baseline_call = NoBaselineCall
    /\ baseline_ret = NoBaselineResult

\* BaselineAnalyzer(): _load_baselines with some references out of reach
load_baselines ==
    /\ baseline_call.op = "none"
    /\ \E failed \in SUBSET (Range(GOLD_STANDARD_REPOS) \cup Range(POOR_EXAMPLE_REPOS)) :
          /\ gold_standards' = LoadBaselines(GOLD_STANDARD_REPOS, failed)
          /\ poor_examples' = LoadBaselines(POOR_EXAMPLE_REPOS, failed)
          /\ baseline_call' = [NoBaselineCall EXCEPT !.op = "__init__", !.failed = failed]
    /\ UNCHANGED baseline_ret
    /\ OutsideBaselineUnchanged

compare_with_baselines ==
    /\ baseline_call.op = "__init__"
    /\ \E target \in TargetAnalyses :
          /\ baseline_call' = [baseline_call EXCEPT !.op = "compare_with_baselines",
                                                    !.target = target]
          /\ baseline_ret' = CompareWithBaselines(target, gold_standards, poor_examples)
    /\ UNCHANGED <<gold_standards, poor_examples>>
    /\ OutsideBaselineUnchanged

\* C26: whichever reference repositories could not be analysed when the
\* analyzer was built, compare_with_baselines on a target whose card can be
\* fetched does not raise, and its result compares the target with exactly
\* the references that were loaded.
C26_MissingBaselinesNotFatal ==
    baseline_call.op = "compare_with_baselines" =>
        /\ ~baseline_ret.raised
        /\ baseline_ret.gold = Range(GOLD_STANDARD_REPOS) \ baseline_call.failed
        /\ baseline_ret.poor = Range(POOR_EXAMPLE_REPOS) \ baseline_call.failed

(***************************************************************************)
(* RepositoryMetadata on its own: calculate_priority_score, and to_dict    *)
(* followed by from_dict (specification SpecMetadata)                      *)
(***************************************************************************)
\* the issues lists: none, one, and more than the five that count
IssueLists ==
    {<<>>, <<"Missing license section">>,
     <<"README is too short (less than 300 characters)", "Missing license section",
       "Missing citation section", "No code examples provided",
       "Missing installation or setup instructions", "Missing README.md file">>}

\* RepositoryMetadata values without timestamps
MetadataValues ==
    {[ConvertToMetadata(HubInfo("lab/mid")) EXCEPT
        !.downloads = d, !.likes = l, !.views = v, !.has_readme = r,
        !.readme_length = n, !.readme_quality_score = q, !.license = lic,
        !.tags = tg, !.issues = iss]
     : d \in {0, 1000, 5000, 10000}, l \in {0, 50, 100, 200}, v \in {0, 40000, 200000},
       r \in BOOLEAN, n \in {200, 300, 1000}, q \in {0, 5, 10},
       lic \in {"", "mit"}, tg \in {<<>>, <<"biology">>}, iss \in IssueLists}

Timestamps == {NoneValue, DatetimeValue(1), DatetimeValue(2)}

\* RepositoryMetadata values with and without timestamps, scored
TimedMetadataValues ==
    {calculate_priority_score(
        [ConvertToMetadata(HubInfo(id)) EXCEPT !.created_at = c, !.updated_at = u,
                                               !.has_readme = r])
     : id \in HubIds, c \in Timestamps, u \in Timestamps, r \in BOOLEAN}

NoMetaCall == [op |-> "none", repo |-> ConvertToMetadata(HubInfo("lab/mid"))]

NoMetaResult == [repo |-> ConvertToMetadata(HubInfo("lab/mid")), returned |-> 0]

InitMetadata ==
    /\ meta_call = NoMetaCall
    /\ meta_ret = NoMetaResult

\* repo.calculate_priority_score()
score_repository ==
    /\ meta_call.op = "none"
    /\ \E repo \in MetadataValues :
          /\ meta_call' = [op |-> "calculate_priority_score", repo |-> repo]
          /\ meta_ret' = [repo |-> calculate_priority_score(repo),
                          returned |-> calculate_priority_score(repo).priority_score]
    /\ OutsideMetadataUnchanged

\* RepositoryMetadata.from_dict(repo.to_dict())
round_trip ==
    /\ meta_call.op = "none"
    /\ \E repo \in TimedMetadataValues :
          /\ meta_call' = [op |-> "round_trip", repo |-> repo]
          /\ meta_ret' = [repo |-> from_dict(to_dict(repo)), returned |-> 0]
    /\ OutsideMetadataUnchanged

\* popularity + documentation + completeness of the value scored, in
\* ScoreUnit-ths, as the specification gives them
ExpectedScore ==
    LET m == meta_call.repo
        Least(a, b) == IF a < b THEN a ELSE b
        popularity == Least(15 * ScoreUnit, (m.downloads * ScoreUnit) \div 500)
                      + Least(10 * ScoreUnit, (m.likes * ScoreUnit) \div 10)
                      + (IF m.views >= 100000 THEN 5 * ScoreUnit
                         ELSE (m.views * ScoreUnit) \div 20000)
        documentation ==
            CASE ~m.has_readme -> 40 * ScoreUnit
              [] m.has_readme /\ m.readme_length < 300 -> 25 * ScoreUnit
              [] m.has_readme /\ m.readme_length >= 300 /\ m.readme_length < 1000
                   -> 15 * ScoreUnit
              [] OTHER -> IF m.readme_quality_score >= 10 THEN 0
                          ELSE (10 - m.readme_quality_score) * ScoreUnit
        completeness ==
            (IF m.license = "" THEN 5 * ScoreUnit ELSE 0)
            + (IF Len(m.tags) = 0 THEN 5 * ScoreUnit ELSE 0)
            + Least(10 * ScoreUnit, 2 * ScoreUnit * Len(m.issues))
    IN  Least(100 * ScoreUnit, popularity + documentation + completeness)

\* C27: calculate_priority_score stores and returns
\* min(100, popularity + documentation + completeness); the value is between
\* 0 and 100; it is at least 40 when there is no README, and above 40 for
\* downloads 5000 and likes 100; it is between 30 and 60 for downloads 1000,
\* likes 50 and a README of 200 characters.
C27_PriorityScoreBounds ==
    meta_call.op = "calculate_priority_score" =>
        LET m == meta_call.repo
            score == meta_ret.returned
        IN  /\ meta_ret.repo.priority_score = score
            /\ score = ExpectedScore
            /\ 0 <= score /\ score <= 100 * ScoreUnit
            /\ ~m.has_readme => score >= 40 * ScoreUnit
            /\ (~m.has_readme /\ m.downloads = 5000 /\ m.likes = 100)
                  => score > 40 * ScoreUnit
            /\ (m.downloads = 1000 /\ m.likes = 50 /\ m.has_readme
                   /\ m.readme_length = 200)
                  => (30 * ScoreUnit <= score /\ score <= 60 * ScoreUnit)

\* the repository of test_calculate_priority_score has been scored
C27_Witness ==
    /\ meta_call.op = "calculate_priority_score"
    /\ ~meta_call.repo.has_readme
    /\ meta_call.repo.downloads = 5000
    /\ meta_call.repo.likes = 100
    /\ meta_call.repo.license = "" /\ meta_call.repo.tags = <<>>
    /\ meta_ret.returned = 70 * ScoreUnit

\* C28: from_dict(to_dict(m)) has the repo_id, the downloads and the
\* priority_score of m, and its created_at and updated_at: the same instant
\* as a datetime, None where m has None.
C28_DictRoundTrip ==
    meta_call.op = "round_trip" =>
        /\ meta_ret.repo.repo_id = meta_call.repo.repo_id
        /\ meta_ret.repo.downloads = meta_call.repo.downloads
        /\ meta_ret.repo.priority_score = meta_call.repo.priority_score
        /\ meta_ret.repo.created_at = meta_call.repo.created_at
        /\ meta_ret.repo.updated_at = meta_call.repo.updated_at

\* a value with a created_at and without an updated_at has made the round trip
C28_Witness ==
    /\ meta_call.op = "round_trip"
    /\ meta_call.repo.created_at.kind = "datetime"
    /\ meta_ret.repo.created_at.kind = "datetime"
    /\ meta_call.repo.updated_at = NoneValue
    /\ meta_ret.repo.updated_at = NoneValue
    /\ meta_call.repo.priority_score > 0

(***************************************************************************)
(* _discover_datasets with the threads of its ThreadPoolExecutor           *)
(* (specification SpecPool)                                                *)
(***************************************************************************)
\* the most keywords of a call
MaxKeywords == 2

\* Field(10): the default of parallel_workers
discovery_max_workers == 10

PoolKeywordArgs ==
    {kw \in UNION {[1..n -> {"biology", "chemistry", "physics"}] : n \in 1..MaxKeywords}
        : \A i, j \in DOMAIN kw : i # j => kw[i] # kw[j]}

PoolLimits == {2, 10}

\* max(10, min(100, limit // max(1, len(keywords))))
PerKeywordLimit(keywords, limit) == Max(10, Min(100, limit \div Max(1, Len(keywords))))

\* the future the loop over the futures waits for, given the searches that
\* completed so far, had it been a loop over as_completed(futures)
NextFutureAsCompleted(pos, done) ==
    IF pos <= Len(done) THEN done[pos] ELSE 0

\* for keyword, future in futures: the loop goes through the futures in the
\* order they were submitted
NextFuture(pos, done) == pos

\* the loop over one future's results: an id is kept once, and the loop
\* stops once `limit` items are collected
MergeFuture(acc, results, limit, f) ==
    LET Step[i \in 0..Len(results)] ==
            IF i = 0 THEN [list |-> acc.list, source |-> acc.source]
            ELSE LET before == Step[i - 1]
                 IN  IF Len(before.list) >= limit /\ Len(before.list) > Len(acc.list)
                     THEN before
                     ELSE IF \E j \in DOMAIN before.list :
                                before.list[j].repo_id = results[i]
                          THEN before
                          ELSE [list |-> Append(before.list,
                                                ConvertToMetadata(HubInfo(results[i]))),
                                source |-> Append(before.source, f)]
    IN  [list |-> Step[Len(results)].list,
         source |-> Step[Len(results)].source,
         taken |-> Append(acc.taken, f)]

NoPoolCall == [keywords |-> <<>>, limit |-> 0, api_calls |-> 0]

NoAcc == [list |-> <<>>, source |-> <<>>, taken |-> <<>>]

InitPool ==
    /\ pool_pc = "idle"
    /\ pool_call = NoPoolCall
    /\ futures = <<>>
    /\ completed = <<>>
    /\ pool_pos = 1
    /\ pool_acc = NoAcc
    /\ worker_stats = [api_calls |-> 0, errors |-> 0]
    /\ pool_ret = <<>>

\* _discover_datasets up to the end of the loop that submits the searches
discover_datasets ==
    /\ pool_pc = "idle"
    /\ \E keywords \in PoolKeywordArgs, limit \in PoolLimits :
          /\ pool_call' = [keywords |-> keywords, limit |-> limit,
                           api_calls |-> worker_stats.api_calls]
          /\ futures' = [i \in DOMAIN keywords |->
                            [pc |-> "submitted", read |-> 0, results |-> <<>>]]
    /\ pool_pc' = "waiting"
    /\ UNCHANGED <<completed, pool_pos, pool_acc, worker_stats, pool_ret>>
    /\ OutsidePoolUnchanged

\* a worker thread in _search_datasets_sync: self.stats["api_calls"] += 1
\* loads the counter ...
search_load(i) ==
    /\ futures[i].pc = "submitted"
    /\ Cardinality({j \in DOMAIN futures : futures[j].pc \in {"loaded", "stored"}})
         < discovery_max_workers
    /\ futures' = [futures EXCEPT ![i].pc = "loaded", ![i].read = worker_stats.api_calls]
    /\ UNCHANGED <<pool_pc, pool_call, completed, pool_pos, pool_acc, worker_stats,
                   pool_ret>>
    /\ OutsidePoolUnchanged

\* ... and stores the value it loaded plus one
search_store(i) ==
    /\ futures[i].pc = "loaded"
    /\ worker_stats' = [worker_stats EXCEPT !.api_calls = futures[i].read + 1]
    /\ futures' = [futures EXCEPT ![i].pc = "stored"]
    /\ UNCHANGED <<pool_pc, pool_call, completed, pool_pos, pool_acc, pool_ret>>
    /\ OutsidePoolUnchanged

\* the worker's api.list_datasets call returns and the future completes
search_return(i) ==
    /\ futures[i].pc = "stored"
    /\ futures' = [futures EXCEPT
                      ![i].pc = "done",
                      ![i].results =
                          SearchSync("dataset", pool_call.keywords[i],
                                     PerKeywordLimit(pool_call.keywords, pool_call.limit),
                                     NoFault)]
    /\ completed' = Append(completed, i)
    /\ UNCHANGED <<pool_pc, pool_call, pool_pos, pool_acc, worker_stats, pool_ret>>
    /\ OutsidePoolUnchanged

\* where the loop over the futures goes after a future
AfterFuture(acc, pos) ==
    IF Len(acc.list) >= pool_call.limit \/ pos = Len(futures) THEN "joining" ELSE "waiting"

\* one turn of the loop over the futures: future.result(timeout=30) returns
\* and the results are merged
take_result ==
    /\ pool_pc = "waiting"
    /\ LET f == NextFuture(pool_pos, completed)
       IN  /\ f \in DOMAIN futures
           /\ futures[f].pc = "done"
           /\ LET acc == MergeFuture(pool_acc, futures[f].results, pool_call.limit, f)
              IN  /\ pool_acc' = acc
                  /\ pool_pc' = AfterFuture(acc, pool_pos)
    /\ pool_pos' = pool_pos + 1
    /\ UNCHANGED <<pool_call, futures, completed, worker_stats, pool_ret>>
    /\ OutsidePoolUnchanged

\* one turn of the loop over the futures: future.result(timeout=30) raises
\* because the search has not completed in time
result_timeout ==
    /\ pool_pc = "waiting"
    /\ LET f == NextFuture(pool_pos, completed)
       IN  /\ f \in DOMAIN futures
           /\ futures[f].pc # "done"
    /\ worker_stats' = [worker_stats EXCEPT !.errors = @ + 1]
    /\ pool_pc' = AfterFuture(pool_acc, pool_pos)
    /\ pool_pos' = pool_pos + 1
    /\ UNCHANGED <<pool_call, futures, completed, pool_acc, pool_ret>>
    /\ OutsidePoolUnchanged

\* the end of the with block waits for every worker, then datasets[:limit]
\* is returned
discover_datasets_return ==
    /\ pool_pc = "joining"
    /\ \A i \in DOMAIN futures : futures[i].pc = "done"
    /\ pool_pc' = "returned"
    /\ pool_ret' = SubSeq(pool_acc.list, 1, Min(pool_call.limit, Len(pool_acc.list)))
    /\ UNCHANGED <<pool_call, futures, completed, pool_pos, pool_acc, worker_stats>>
    /\ OutsidePoolUnchanged

\* what the Hub returns for the keyword at position k of the call
ResultsOf(k) ==
    HubSearch("dataset", pool_call.keywords[k],
              PerKeywordLimit(pool_call.keywords, pool_call.limit))

RECURSIVE MergedInOrder(_, _)
\* the list a merge of the results in the given order of keyword positions
\* collects
MergedInOrder(order, acc) ==
    IF order = <<>> \/ Len(acc.list) >= pool_call.limit THEN acc
    ELSE MergedInOrder(Tail(order),
                       MergeFuture(acc, ResultsOf(Head(order)), pool_call.limit,
                                   Head(order)))

\* C29 as stated: the results are merged in the order the searches
\* completed, so the search that completed first contributes an id that
\* several keywords return.
C29_MergedInCompletionOrder ==
    (pool_pc = "returned" /\ worker_stats.errors = 0) =>
        LET merged == MergedInOrder(completed, NoAcc)
        IN  /\ pool_acc.list = merged.list
            /\ pool_acc.source = merged.source

\* C29, amended: the results are merged in keyword input order whatever
\* the order in which the searches complete; every item comes from the
\* first keyword, in input order, whose results were taken and hold its id.
C29_MergedInKeywordOrder ==
    pool_pc = "returned" =>
        /\ \A i, j \in DOMAIN pool_acc.taken : i < j => pool_acc.taken[i] < pool_acc.taken[j]
        /\ \A i, j \in DOMAIN pool_acc.source :
              i < j => pool_acc.source[i] <= pool_acc.source[j]
        /\ \A i \in DOMAIN pool_acc.list :
              LET holders == {k \in Range(pool_acc.taken) :
                                 pool_acc.list[i].repo_id \in Range(ResultsOf(k))}
              IN  /\ pool_acc.source[i] \in holders
                  /\ \A k \in holders : pool_acc.source[i] <= k

\* the second keyword's search completed first, both return lab/raw, and
\* the first keyword contributed it
C29_Witness ==
    /\ pool_pc = "returned"
    /\ pool_call.keywords = <<"biology", "chemistry">>
    /\ completed = <<2, 1>>
    /\ pool_acc.taken = <<1, 2>>
    /\ \E i \in DOMAIN pool_acc.list :
          pool_acc.list[i].repo_id = "lab/raw" /\ pool_acc.source[i] = 1
    /\ \E i \in DOMAIN pool_acc.list :
          pool_acc.list[i].repo_id = "lab/mid" /\ pool_acc.source[i] = 2

\* C30: after a run that executes k keyword searches api_calls has grown by
\* exactly k, whatever the interleaving of the worker threads.
C30_NoLostUpdate ==
    pool_pc = "returned" =>
        worker_stats.api_calls = pool_call.api_calls + Len(pool_call.keywords)

(***************************************************************************)
(* BaselineAnalyzer._extract_sections (specification SpecSections)         *)
(***************************************************************************)
\* the most lines of a card
MaxLines == 4

\* a line of a card: the number of # it starts with, whether whitespace
\* follows them, and the rest of the line
CardLine(hashes, space, rest) == [hashes |-> hashes, space |-> space, rest |-> rest]

CardLines ==
    {CardLine(0, FALSE, "Some text."),
     CardLine(1, TRUE, "A"), CardLine(2, TRUE, "B"), CardLine(3, TRUE, "C"),
     CardLine(4, TRUE, "D"), CardLine(6, TRUE, "E"),
     CardLine(7, TRUE, "F"), CardLine(1, FALSE, "tag")}

Cards == UNION {[1..n -> CardLines] : n \in 0..MaxLines}

\* re.match(r"^(#{1,4})\s+(.+)$", line)
HeaderMatchToLevel4(line) == line.hashes \in 1..4 /\ line.space /\ line.rest # ""

\* re.match(r"^(#{1,3})\s+(.+)$", line)
HeaderMatch(line) == line.hashes \in 1..3 /\ line.space /\ line.rest # ""

\* re.findall(r"^#{4,6}\s+(.+)$", content, re.MULTILINE)
FindSubsections(content) ==
    LET sub == SelectSeq(content,
                         LAMBDA l : l.hashes \in 4..6 /\ l.space /\ l.rest # "")
    IN  [i \in DOMAIN sub |-> sub[i].rest]

\* _analyze_section: the name, the content and the sub-headings of a CardSection
AnalyzeSection(name, content) ==
    [name |-> name, content |-> content, subsections |-> FindSubsections(content)]

RECURSIVE ExtractLoop(_, _, _, _)
\* the loop over the lines of _extract_sections and the lines after it;
\* current_section is "" for None
ExtractLoop(lines, sections, current_section, current_content) ==
    IF lines = <<>>
    THEN IF current_section # ""
         THEN Append(sections, AnalyzeSection(current_section, current_content))
         ELSE sections
    ELSE IF HeaderMatch(Head(lines))
         THEN ExtractLoop(Tail(lines),
                          IF current_section # ""
                          THEN Append(sections,
                                      AnalyzeSection(current_section, current_content))
                          ELSE sections,
                          Head(lines).rest, <<>>)
         ELSE ExtractLoop(Tail(lines), sections, current_section,
                          Append(current_content, Head(lines)))

\* _extract_sections
ExtractSections(lines) == ExtractLoop(lines, <<>>, "", <<>>)

NoSectionsCall == [called |-> FALSE, lines |-> <<>>]

InitSections ==
    /\ sections_call = NoSectionsCall
    /\ sections_ret = <<>>

\* self._extract_sections(content)
extract_sections ==
    /\ ~sections_call.called
    /\ \E lines \in Cards :
          /\ sections_call' = [called |-> TRUE, lines |-> lines]
          /\ sections_ret' = ExtractSections(lines)
    /\ OutsideSectionsUnchanged

\* the positions of the heading lines of the given levels in the card
HeadingsAt(levels) ==
    {i \in DOMAIN sections_call.lines :
        sections_call.lines[i].hashes \in levels /\ sections_call.lines[i].space}

\* the position of the k-th heading of level 1 to 3
SectionStart(k) ==
    CHOOSE i \in HeadingsAt(1..3) :
        Cardinality({j \in HeadingsAt(1..3) : j <= i}) = k

\* the position after the last line of the k-th section
SectionEnd(k) ==
    IF k < Cardinality(HeadingsAt(1..3)) THEN SectionStart(k + 1)
    ELSE Len(sections_call.lines) + 1

\* C31: there is one section per heading line of level 1 to 3, in card
\* order and named after it; its content is the lines up to the next such
\* heading, so text before the first heading is in no section; a heading
\* of level 4 to 6 is a sub-heading of the section that contains it.
C31_SectionsAtLevel1To3 ==
    sections_call.called =>
        /\ Len(sections_ret) = Cardinality(HeadingsAt(1..3))
        /\ \A k \in DOMAIN sections_ret :
              LET from == SectionStart(k)
                  to == SectionEnd(k)
              IN  /\ sections_ret[k].name = sections_call.lines[from].rest
                  /\ sections_ret[k].content
                       = SubSeq(sections_call.lines, from + 1, to - 1)
                  /\ Range(sections_ret[k].subsections)
                       = {sections_call.lines[i].rest :
                            i \in {j \in HeadingsAt(4..6) : from < j /\ j < to}}
                  /\ Len(sections_ret[k].subsections)
                       = Cardinality({j \in HeadingsAt(4..6) : from < j /\ j < to})

\* the card # A, ## B, ### C, #### D gives the sections A, B, C with D a
\* sub-heading of C
C31_Witness ==
    /\ sections_call.called
    /\ sections_call.lines = <<CardLine(1, TRUE, "A"), CardLine(2, TRUE, "B"),
                               CardLine(3, TRUE, "C"), CardLine(4, TRUE, "D")>>
    /\ Len(sections_ret) = 3
    /\ sections_ret[1].name = "A" /\ sections_ret[2].name = "B"
    /\ sections_ret[3].name = "C"
    /\ sections_ret[3].subsections = <<"D">>
    /\ sections_ret[1].subsections = <<>>

(***************************************************************************)
(* AsyncLRUCache around one coroutine function, called from concurrent     *)
(* tasks of one event loop (specification SpecLru).  A task runs without   *)
(* interruption except at `await func(...)`.                               *)
(***************************************************************************)
\* steps of the tasks (calls, resumptions, seconds passing)
MaxLruSteps == 10

LruTasks == {"task-1", "task-2"}

\* the cache keys _make_key gives for the arguments used
LruKeys == {"f:1", "f:2", "f:3"}

LruSizes == {1, 2}

\* the ttl of the decorator, in seconds
LruTtl == 2

\* list.remove(x): the first occurrence goes
RemoveFirst(list, x) ==
    LET j == CHOOSE i \in DOMAIN list : list[i] = x /\ \A k \in 1..(i - 1) : list[k] # x
    IN  SubSeq(list, 1, j - 1) \o SubSeq(list, j + 1, Len(list))

\* _is_valid: an expiry of 0 is falsy
LruIsValid(entry, t) == entry.expiry # 0 /\ t < entry.expiry

\* _add_to_cache at time t: the cache afterwards, and the exception raised
AddToCache(c, key, value, t) ==
    LET full == Cardinality(DOMAIN c.cache) >= c.maxsize
        evicted == [c EXCEPT !.cache = Drop(@, c.access_order[1]),
                             !.access_order = RemoveFirst(@, c.access_order[1])]
        kept == IF full THEN evicted ELSE c
    IN  IF full /\ c.access_order = <<>> THEN [c |-> c, raised |-> "IndexError"]
        ELSE IF full /\ c.access_order[1] \notin DOMAIN c.cache
        THEN [c |-> c, raised |-> "KeyError"]
        ELSE [c |-> [kept EXCEPT
                        !.cache = Put(kept.cache, key,
                                      [value |-> value, expiry |-> t + c.ttl]),
                        !.access_order = Append(kept.access_order, key)],
              raised |-> "none"]

NoLru == [maxsize |-> 0, ttl |-> 0, cache |-> EmptyDict, access_order |-> <<>>]

IdleTask == [pc |-> "idle", key |-> "", ended |-> "none"]

InitLru ==
    /\ lru = NoLru
    /\ lru_tasks = [t \in LruTasks |-> IdleTask]
    /\ lru_now = 0
    /\ lru_used = EmptyDict
    /\ lru_steps = 0

\* AsyncLRUCache(maxsize=..., ttl=...)
lru_init ==
    /\ lru = NoLru
    /\ \E maxsize \in LruSizes :
          lru' = [maxsize |-> maxsize, ttl |-> LruTtl, cache |-> EmptyDict,
                  access_order |-> <<>>]
    /\ UNCHANGED <<lru_tasks, lru_now, lru_used, lru_steps>>
    /\ OutsideLruUnchanged

\* a task calls the wrapper: from the cache check to the return of a hit or
\* to `await func(*args, **kwargs)`
wrapper_call(t) ==
    /\ lru # NoLru
    /\ lru_steps < MaxLruSteps
    /\ lru_tasks[t].pc = "idle"
    /\ \E cache_key \in LruKeys :
          LET cached == cache_key \in DOMAIN lru.cache
              hit == cached /\ LruIsValid(lru.cache[cache_key], lru_now)
              listed == \E i \in DOMAIN lru.access_order : lru.access_order[i] = cache_key
          IN  IF cached /\ ~listed
              \* access_order.remove(cache_key) raises ValueError
              THEN /\ lru' = IF hit THEN lru ELSE [lru EXCEPT !.cache = Drop(@, cache_key)]
                   /\ lru_tasks' = [lru_tasks EXCEPT ![t] = [pc |-> "idle", key |-> cache_key,
                                                             ended |-> "ValueError"]]
                   /\ lru_used' = lru_used
              ELSE IF hit
              THEN /\ lru' = [lru EXCEPT !.access_order =
                                 Append(RemoveFirst(@, cache_key), cache_key)]
                   /\ lru_tasks' = [lru_tasks EXCEPT ![t] = [pc |-> "idle", key |-> cache_key,
                                                             ended |-> "hit"]]
                   /\ lru_used' = Put(lru_used, cache_key, lru_steps + 1)
              ELSE /\ lru' = IF cached
                             THEN [lru EXCEPT !.cache = Drop(@, cache_key),
                                              !.access_order = RemoveFirst(@, cache_key)]
                             ELSE lru
                   /\ lru_tasks' = [lru_tasks EXCEPT ![t] = [pc |-> "awaiting",
                                                             key |-> cache_key,
                                                             ended |-> "none"]]
                   /\ lru_used' = lru_used
    /\ lru_steps' = lru_steps + 1
    /\ UNCHANGED lru_now
    /\ OutsideLruUnchanged

\* the wrapped function returns to a task: _add_to_cache and the return
wrapper_resume(t) ==
    /\ lru_tasks[t].pc = "awaiting"
    /\ lru_steps < MaxLruSteps
    /\ LET added == AddToCache(lru, lru_tasks[t].key, lru_tasks[t].key, lru_now)
       IN  /\ lru' = added.c
           /\ lru_tasks' = [lru_tasks EXCEPT ![t].pc = "idle",
                                             ![t].ended = IF added.raised = "none"
                                                          THEN "miss" ELSE added.raised]
           /\ lru_used' = IF added.raised = "none"
                          THEN Put(lru_used, lru_tasks[t].key, lru_steps + 1)
                          ELSE lru_used
    /\ lru_steps' = lru_steps + 1
    /\ UNCHANGED lru_now
    /\ OutsideLruUnchanged

\* a second passes
lru_wait ==
    /\ lru # NoLru
    /\ lru_steps < MaxLruSteps
    /\ lru_now < LruTtl
    /\ lru_now' = lru_now + 1
    /\ lru_steps' = lru_steps + 1
    /\ UNCHANGED <<lru, lru_tasks, lru_used>>
    /\ OutsideLruUnchanged

\* C36: under every interleaving of the calling tasks access_order lists
\* exactly the keys of the cache, each once; the cache never holds more than
\* maxsize entries; no call ends in an exception of the cache's bookkeeping;
\* and a key that leaves the cache while unexpired is the least recently
\* used one.
C36_AccessOrderMatchesCache ==
    [][lru # NoLru =>
        /\ Len(lru'.access_order) = Cardinality(DOMAIN lru'.cache)
        /\ Range(lru'.access_order) = DOMAIN lru'.cache
        /\ Cardinality(DOMAIN lru'.cache) <= lru'.maxsize
        /\ \A t \in LruTasks :
              lru_tasks'[t].ended \notin {"KeyError", "IndexError", "ValueError"}
        /\ \A k \in DOMAIN lru.cache \ DOMAIN lru'.cache :
              LruIsValid(lru.cache[k], lru_now)
                  => \A x \in DOMAIN lru.cache : lru_used[k] <= lru_used[x]]_vars

\* the size bound alone
LruWithinMaxsize == Cardinality(DOMAIN lru.cache) <= lru.maxsize

\* no call has ended in the KeyError of an eviction
LruNeverRaisesKeyError == \A t \in LruTasks : lru_tasks[t].ended # "KeyError"

Init == InitReview /\ InitDiscovery /\ InitEnrich /\ InitCacheCalls /\ InitPortal /\ InitClaim /\ InitInsights /\ InitSettings /\ InitBaseline /\ InitMetadata /\ InitPool /\ InitSections /\ InitLru

Next ==
    \/ create_proposal
    \/ programmatic_review
    \/ review_proposal
    \/ review_all_pending
    \/ confirm_continue
    \/ choose_approve
    \/ enter_notes
    \/ choose_edit
    \/ choose_reject
    \/ enter_reason
    \/ choose_skip
    \/ choose_view
    \/ choose_export
    \/ create_pr_draft

Spec == Init /\ [][Next]_vars

NextDiscovery ==
    \/ discover_repositories
    \/ tick

\* a RepositoryDiscovery beside a HumanReviewSystem(auto_save=True), the default
InitD == Init /\ auto_save

SpecDiscovery == InitD /\ [][NextDiscovery]_vars

NextRepeat ==
    \/ discover_repositories
    \/ discover_repositories_again
    \/ tick

SpecRepeat == InitD /\ [][NextRepeat]_vars

NextEnrich == enrich_metadata_parallel

SpecEnrich == InitD /\ [][NextEnrich]_vars

NextCache ==
    \/ cache_set
    \/ cache_get
    \/ cache_delete
    \/ cache_clear
    \/ cache_cleanup_expired
    \/ wait

InitC ==
    /\ InitReview /\ auto_save
    /\ InitEnrich
    /\ InitCacheCalls
    /\ InitPortal
    /\ InitLru
    /\ InitSections
    /\ InitPool
    /\ InitMetadata
    /\ InitBaseline
    /\ InitSettings
    /\ InitInsights
    /\ InitClaim
    /\ max_memory_size \in MemorySizes
    /\ InitCacheManager
    /\ stats = [total_discovered |-> 0, total_processed |-> 0, cache_hits |-> 0,
                api_calls |-> 0, errors |-> 0]
    /\ utcnow = 0
    /\ ndisc = 0
    /\ nticks = 0
    /\ disc_call = NoCall
    /\ disc_ret = NoResult
    /\ disc_trace = NoTrace

SpecCache == InitC /\ [][NextCache]_vars

NextTtlMap ==
    \/ cache_set
    \/ cache_get
    \/ cache_delete
    \/ cache_cleanup_expired
    \/ wait

SpecTtlMap == InitC /\ [][NextTtlMap]_vars

NextCacheFault ==
    \/ cache_set
    \/ cache_set_write_fails
    \/ cache_get
    \/ wait

SpecCacheFault == InitC /\ [][NextCacheFault]_vars

NextPortal ==
    \/ aenter
    \/ aexit
    \/ check_availability
    \/ search_science_datasets
    \/ get_trending_science_datasets
    \/ get_community_insights

SpecPortal == InitD /\ [][NextPortal]_vars

NextClaim ==
    \/ find_and_claim_dataset
    \/ check_candidate
    \/ claim_candidate
    \/ return_none

SpecClaim == InitD /\ [][NextClaim]_vars

NextInsights == discover_with_insights

SpecInsights == InitD /\ [][NextInsights]_vars

NextSettings ==
    \E t \in Threads :
        \/ get_settings_test(t)
        \/ get_settings_build(t)
        \/ get_settings_create_directories(t)
        \/ get_settings_return(t)
        \/ reset_settings(t)

SpecSettings == InitD /\ [][NextSettings]_vars

NextBaseline ==
    \/ load_baselines
    \/ compare_with_baselines

SpecBaseline == InitD /\ [][NextBaseline]_vars

NextMetadata ==
    \/ score_repository
    \/ round_trip

SpecMetadata == InitD /\ [][NextMetadata]_vars

NextPool ==
    \/ discover_datasets
    \/ \E i \in DOMAIN futures : \/ search_load(i)
                                 \/ search_store(i)
                                 \/ search_return(i)
    \/ take_result
    \/ result_timeout
    \/ discover_datasets_return

SpecPool == InitD /\ [][NextPool]_vars

NextSections == extract_sections

SpecSections == InitD /\ [][NextSections]_vars

NextLru ==
    \/ lru_init
    \/ \E t \in LruTasks : \/ wrapper_call(t)
                           \/ wrapper_resume(t)
    \/ lru_wait

SpecLru == InitD /\ [][NextLru]_vars

=============================================================================
